---------------------------- MODULE Spec2Model ----------------------------
(***************************************************************************)
(* A model of gql-extractor: the GraphQL parser / deduplicator / type      *)
(* inference (package code stored in src/README.md from line 122) and the  *)
(* capture pipeline of src/capture.go (the second program, from line 246). *)
(*                                                                         *)
(* Text is a sequence of one-character strings, so that the regular        *)
(* expressions of the source are matched character by character.           *)
(***************************************************************************)
EXTENDS Integers, Sequences, FiniteSets, TLC

(***************************************************************************)
(* Characters.  Three characters have no TLA+ string escape and are named. *)
(***************************************************************************)
VT == "VT"
BACKTICK == "BT"
DQUOTE == "DQ"

\* Go regexp \s: [\t\n\f\r ]
IsReSpace(c) == c \in {" ", "\n", "\t", "\r", "\f"}

\* unicode.IsSpace, used by strings.TrimSpace: \s plus \v (and U+0085, U+00A0)
IsUnicodeSpace(c) == IsReSpace(c) \/ c = VT

Letters ==
  {"a","b","c","d","e","f","g","h","i","j","k","l","m","n","o","p","q","r",
   "s","t","u","v","w","x","y","z",
   "A","B","C","D","E","F","G","H","I","J","K","L","M","N","O","P","Q","R",
   "S","T","U","V","W","X","Y","Z"}

Digits == {"0","1","2","3","4","5","6","7","8","9"}

\* Go regexp \w: [0-9A-Za-z_]
IsWordChar(c) == c \in Letters \cup Digits \cup {"_"}

\* The characters of the model in byte order, for Go's string comparison.
ByteOrder ==
  <<"\t", "\n", VT, "\f", "\r", " ", "!", DQUOTE, "#", "$", "'", "(", ")", ",",
    "0","1","2","3","4","5","6","7","8","9", ":", "=",
    "A","B","C","D","E","F","G","H","I","J","K","L","M","N","O","P","Q","R",
    "S","T","U","V","W","X","Y","Z", "[", "\\", "]", "_", BACKTICK,
    "a","b","c","d","e","f","g","h","i","j","k","l","m","n","o","p","q","r",
    "s","t","u","v","w","x","y","z", "{", "|", "}">>

CharCode(c) == CHOOSE i \in DOMAIN ByteOrder : ByteOrder[i] = c

\* Go's s > t on strings: bytewise lexicographic order.
RECURSIVE StringGreater(_, _)
StringGreater(s, t) ==
  IF s = <<>> THEN FALSE
  ELSE IF t = <<>> THEN TRUE
  ELSE IF s[1] # t[1] THEN CharCode(s[1]) > CharCode(t[1])
  ELSE StringGreater(Tail(s), Tail(t))

(***************************************************************************)
(* Scanning helpers: positions are 1-based, Len(s)+1 is the end of text.   *)
(***************************************************************************)
\* The least element of a non-empty set of positions.
First(S) == CHOOSE j \in S : \A k \in S : j <= k

\* The first position >= i that holds no \s character (greedy \s*).
SkipReSpace(s, i) ==
  LET stops == {j \in i..Len(s) : ~IsReSpace(s[j])}
  IN  IF stops = {} THEN IF i > Len(s) THEN i ELSE Len(s) + 1 ELSE First(stops)

\* The first position >= i that holds no \w character (greedy \w*).
SkipWord(s, i) ==
  LET stops == {j \in i..Len(s) : ~IsWordChar(s[j])}
  IN  IF stops = {} THEN IF i > Len(s) THEN i ELSE Len(s) + 1 ELSE First(stops)

\* The first position >= i holding a character of set cs, or 0.
FindChar(s, i, cs) ==
  LET hits == {j \in i..Len(s) : s[j] \in cs}
  IN  IF hits = {} THEN 0 ELSE First(hits)

HasPrefixAt(s, i, p) ==
  /\ i + Len(p) - 1 <= Len(s)
  /\ SubSeq(s, i, i + Len(p) - 1) = p

\* strings.TrimSpace
RECURSIVE TrimLeft(_)
TrimLeft(s) ==
  IF s # <<>> /\ IsUnicodeSpace(s[1]) THEN TrimLeft(Tail(s)) ELSE s

RECURSIVE TrimRight(_)
TrimRight(s) ==
  IF s # <<>> /\ IsUnicodeSpace(s[Len(s)])
  THEN TrimRight(SubSeq(s, 1, Len(s) - 1)) ELSE s

TrimSpace(s) == TrimRight(TrimLeft(s))

\* strings.ReplaceAll(s, old, new), old non-empty: leftmost, non-overlapping.
RECURSIVE ReplaceAll(_, _, _)
ReplaceAll(s, old, new) ==
  IF s = <<>> THEN <<>>
  ELSE IF HasPrefixAt(s, 1, old)
       THEN new \o ReplaceAll(SubSeq(s, Len(old) + 1, Len(s)), old, new)
       ELSE <<s[1]>> \o ReplaceAll(Tail(s), old, new)

(***************************************************************************)
(* normalizeGraphQL                                                        *)
(***************************************************************************)
\* regexp `#[^\n]*` replaced by "": a comment runs to the end of its line.
RECURSIVE StripComments(_)
StripComments(s) ==
  IF s = <<>> THEN <<>>
  ELSE IF s[1] = "#"
       THEN LET nl == FindChar(s, 1, {"\n"})
            IN  IF nl = 0 THEN <<>> ELSE StripComments(SubSeq(s, nl, Len(s)))
       ELSE <<s[1]>> \o StripComments(Tail(s))

\* regexp `\s+` replaced by " "
RECURSIVE CollapseSpace(_)
CollapseSpace(s) ==
  IF s = <<>> THEN <<>>
  ELSE IF IsReSpace(s[1])
       THEN <<" ">> \o CollapseSpace(SubSeq(s, SkipReSpace(s, 1), Len(s)))
       ELSE <<s[1]>> \o CollapseSpace(Tail(s))

Punctuation == {"{", "}", "(", ")", "[", "]", ":", ","}

\* regexp `\s*([\{\}\(\)\[\]:,])\s*` replaced by "$1": a match starts at a
\* (possibly empty) run of spaces that is followed by a punctuation mark and
\* takes the spaces after the mark too.
RECURSIVE TightenPunctuation(_)
TightenPunctuation(s) ==
  IF s = <<>> THEN <<>>
  ELSE LET p == SkipReSpace(s, 1)
       IN  IF p <= Len(s) /\ s[p] \in Punctuation
           THEN <<s[p]>> \o
                TightenPunctuation(SubSeq(s, SkipReSpace(s, p + 1), Len(s)))
           ELSE <<s[1]>> \o TightenPunctuation(Tail(s))

\* A normalizeGraphQL that trims before it strips the comments.
TrimBeforeStripping(query) ==
  TightenPunctuation(CollapseSpace(StripComments(TrimSpace(query))))

\* A normalizeGraphQL that leaves the comments in.
KeepComments(query) ==
  TightenPunctuation(CollapseSpace(TrimSpace(query)))

normalizeGraphQL(query) ==
  TightenPunctuation(CollapseSpace(TrimSpace(StripComments(query))))

(***************************************************************************)
(* GraphQLOperation and ParseGraphQLOperation                              *)
(***************************************************************************)
KwQuery == <<"q","u","e","r","y">>
KwMutation == <<"m","u","t","a","t","i","o","n">>
KwSubscription == <<"s","u","b","s","c","r","i","p","t","i","o","n">>

\* A keyword alternative that knows queries only.
QueryKeywordAt(s, i) ==
  IF HasPrefixAt(s, i, KwQuery) THEN KwQuery ELSE <<>>

\* (query|mutation|subscription) at position i: the keyword, or <<>>.
KeywordAt(s, i) ==
  IF HasPrefixAt(s, i, KwQuery) THEN KwQuery
  ELSE IF HasPrefixAt(s, i, KwMutation) THEN KwMutation
  ELSE IF HasPrefixAt(s, i, KwSubscription) THEN KwSubscription
  ELSE <<>>

\* A Go map with string keys: a function whose domain is the set of keys.
EmptyMap == [k \in {} |-> <<>>]

MapPut(m, key, val) ==
  [k \in DOMAIN m \cup {key} |-> IF k = key THEN val ELSE m[k]]

\* variablePattern `\$(\w+):\s*([^,\)]+)`, FindAllStringSubmatch from i on,
\* each match stored as Variables[name] = TrimSpace(type).  The match is
\* followed position by position: d the dollar sign, w the end of the name,
\* t0 the end of the spaces after the colon, tEnd the end of the type.
RECURSIVE ParseVariables(_, _, _)

VariableStored(s, d, w, t0, tEnd, vars) ==
  IF tEnd > t0
  THEN ParseVariables(s, tEnd,
         MapPut(vars, SubSeq(s, d + 1, w - 1),
                TrimSpace(SubSeq(s, t0, tEnd - 1))))
  \* \s* gives its last space back to [^,\)]+
  ELSE IF t0 > w + 1
       THEN ParseVariables(s, t0,
              MapPut(vars, SubSeq(s, d + 1, w - 1),
                     TrimSpace(SubSeq(s, t0 - 1, t0 - 1))))
  ELSE ParseVariables(s, d + 1, vars)

OrEnd(s, stop) == IF stop = 0 THEN Len(s) + 1 ELSE stop

VariableTyped(s, d, w, t0, vars) ==
  VariableStored(s, d, w, t0, OrEnd(s, FindChar(s, t0, {",", ")"})), vars)

VariableNamed(s, d, w, vars) ==
  IF w > d + 1 /\ w <= Len(s) /\ s[w] = ":"
  THEN VariableTyped(s, d, w, SkipReSpace(s, w + 1), vars)
  ELSE ParseVariables(s, d + 1, vars)

VariableAt(s, d, vars) ==
  IF d = 0 THEN vars ELSE VariableNamed(s, d, SkipWord(s, d + 1), vars)

ParseVariables(s, i, vars) == VariableAt(s, FindChar(s, i, {"$"}), vars)

\* fieldPattern `(\w+)(?:\s*\([^)]*\))?\s*(?:\{[^}]*\})?`, FindAllStringSubmatch
\* from i on: the identifier of each match.  The match is followed position
\* by position: a the start of the identifier, w its end, sp the end of the
\* spaces after it, argClose the end of the argument list (0: none), sp2 the
\* end of the spaces after that, blkClose the end of the block (0: none).
RECURSIVE ParseFields(_, _)

FieldMatched(s, a, w, sp2, blkClose) ==
  <<SubSeq(s, a, w - 1)>>
    \o ParseFields(s, IF blkClose # 0 THEN blkClose + 1 ELSE sp2)

FieldBlock(s, a, w, sp2) ==
  FieldMatched(s, a, w, sp2,
               IF sp2 <= Len(s) /\ s[sp2] = "{"
               THEN FindChar(s, sp2 + 1, {"}"}) ELSE 0)

FieldArguments(s, a, w, argClose) ==
  FieldBlock(s, a, w, SkipReSpace(s, IF argClose # 0 THEN argClose + 1 ELSE w))

FieldSpace(s, a, w, sp) ==
  FieldArguments(s, a, w,
                 IF sp <= Len(s) /\ s[sp] = "("
                 THEN FindChar(s, sp + 1, {")"}) ELSE 0)

FieldWord(s, a, w) == FieldSpace(s, a, w, SkipReSpace(s, w))

FieldAt(s, a) == IF a = 0 THEN <<>> ELSE FieldWord(s, a, SkipWord(s, a))

ParseFields(s, i) == FieldAt(s, FindChar(s, i, Letters \cup Digits \cup {"_"}))

\* The result of ParseGraphQLOperation: err is TRUE for "invalid GraphQL
\* operation format", and then op is meaningless.
NoOperation ==
  [Type |-> <<>>, Name |-> <<>>, Variables |-> EmptyMap, Fields |-> <<>>,
   Raw |-> <<>>]

\* operationPattern
\* `(?s)^(query|mutation|subscription)\s+(\w+)?\s*(\([^)]*\))?\s*\{(.+)\}$`
\* on the trimmed text, followed position by position: kw the keyword, p2
\* the end of the spaces after it, p3 the end of the name, p4 the end of the
\* spaces after the name, close the end of the parameter list (when
\* hasParams), p6 the opening brace of the body.
OperationMatched(operation, kw, p2, p3, p4, hasParams, close, p6) ==
  IF /\ kw # <<>>
     /\ p2 > Len(kw) + 1
     /\ hasParams => close # 0
     /\ p6 <= Len(operation) /\ operation[p6] = "{"
     /\ operation[Len(operation)] = "}"
     /\ Len(operation) - 1 >= p6 + 1
  THEN [err |-> FALSE,
        op  |-> [Type      |-> kw,
                 Name      |-> SubSeq(operation, p2, p3 - 1),
                 Variables |-> IF hasParams
                               THEN ParseVariables(
                                      SubSeq(operation, p4, close), 1,
                                      EmptyMap)
                               ELSE EmptyMap,
                 Fields    |-> ParseFields(
                                 SubSeq(operation, p6 + 1,
                                        Len(operation) - 1), 1),
                 Raw       |-> operation]]
  ELSE [err |-> TRUE, op |-> NoOperation]

OperationBody(operation, kw, p2, p3, p4, hasParams, close) ==
  OperationMatched(operation, kw, p2, p3, p4, hasParams, close,
                   SkipReSpace(operation,
                               IF hasParams THEN close + 1 ELSE p4))

OperationParams(operation, kw, p2, p3, p4, hasParams) ==
  OperationBody(operation, kw, p2, p3, p4, hasParams,
                IF hasParams THEN FindChar(operation, p4 + 1, {")"}) ELSE 0)

OperationAfterName(operation, kw, p2, p3, p4) ==
  OperationParams(operation, kw, p2, p3, p4,
                  p4 <= Len(operation) /\ operation[p4] = "(")

OperationName(operation, kw, p2, p3) ==
  OperationAfterName(operation, kw, p2, p3, SkipReSpace(operation, p3))

OperationKeyword(operation, kw, p2) ==
  OperationName(operation, kw, p2, SkipWord(operation, p2))

OperationFrom(operation, kw) ==
  OperationKeyword(operation, kw, SkipReSpace(operation, Len(kw) + 1))

OperationTrimmed(operation) ==
  OperationFrom(operation, KeywordAt(operation, 1))

ParseGraphQLOperation(text) == OperationTrimmed(TrimSpace(text))

(***************************************************************************)
(* ExtractOperationsFromJS                                                 *)
(***************************************************************************)
\* `\{[^}]+(?:\{[^}]+\})*[^}]+\}` with the brace at b: the match ends at the
\* first closing brace, which must be at least two characters after b (the
\* first [^}]+ gives its last character to the second; the group between
\* them can never match, as [^}]+ has eaten every opening brace).  0: none.
BodyEnd(s, b) ==
  LET q == FindChar(s, b + 1, {"}"})
  IN  IF q # 0 /\ q - (b + 1) >= 2 THEN q ELSE 0

NoMatch == [end |-> 0, text |-> <<>>]

\* patterns[0]: `(?s)(query|mutation|subscription)\s+\w+\s*\([^)]*\)\s*\{...\}`
\* match[1] is the keyword, so opString = match[0].
MatchNamedWithParams(s, i) ==
  LET kw    == KeywordAt(s, i)
      p1    == i + Len(kw)
      p2    == SkipReSpace(s, p1)
      p3    == SkipWord(s, p2)
      p4    == SkipReSpace(s, p3)
      close == IF p4 <= Len(s) /\ s[p4] = "("
               THEN FindChar(s, p4 + 1, {")"}) ELSE 0
      p6    == SkipReSpace(s, close + 1)
      e     == IF p6 <= Len(s) /\ s[p6] = "{" THEN BodyEnd(s, p6) ELSE 0
  IN  IF kw # <<>> /\ p2 > p1 /\ p3 > p2 /\ close # 0 /\ e # 0
      THEN [end |-> e, text |-> SubSeq(s, i, e)]
      ELSE NoMatch

\* patterns[1]: `(?s)(query|mutation|subscription)\s*\([^)]*\)\s*\{...\}`
MatchAnonymousWithParams(s, i) ==
  LET kw    == KeywordAt(s, i)
      p2    == SkipReSpace(s, i + Len(kw))
      close == IF p2 <= Len(s) /\ s[p2] = "("
               THEN FindChar(s, p2 + 1, {")"}) ELSE 0
      p6    == SkipReSpace(s, close + 1)
      e     == IF p6 <= Len(s) /\ s[p6] = "{" THEN BodyEnd(s, p6) ELSE 0
  IN  IF kw # <<>> /\ close # 0 /\ e # 0
      THEN [end |-> e, text |-> SubSeq(s, i, e)]
      ELSE NoMatch

\* patterns[2]: `(?s)(query|mutation|subscription)\s+\w+\s*\{...\}`
MatchNamedNoParams(s, i) ==
  LET kw == KeywordAt(s, i)
      p1 == i + Len(kw)
      p2 == SkipReSpace(s, p1)
      p3 == SkipWord(s, p2)
      p4 == SkipReSpace(s, p3)
      e  == IF p4 <= Len(s) /\ s[p4] = "{" THEN BodyEnd(s, p4) ELSE 0
  IN  IF kw # <<>> /\ p2 > p1 /\ p3 > p2 /\ e # 0
      THEN [end |-> e, text |-> SubSeq(s, i, e)]
      ELSE NoMatch

\* `((?:query|mutation|subscription)[^X]+)X` at k, X any character of the
\* set stops: the group is the keyword and at least one more character, so
\* it never equals a bare keyword and opString = match[1].
MatchWrapped(s, k, stops) ==
  LET kw == KeywordAt(s, k)
      q  == FindChar(s, k + Len(kw), stops)
  IN  IF kw # <<>> /\ q # 0 /\ q > k + Len(kw)
      THEN [end |-> q, text |-> SubSeq(s, k, q - 1)]
      ELSE NoMatch

\* patterns[3]: gql\s*`\s*((?:query|mutation|subscription)[^`]+)`
MatchTemplateLiteral(s, i) ==
  LET p1 == SkipReSpace(s, i + 3)
  IN  IF HasPrefixAt(s, i, <<"g","q","l">>) /\ p1 <= Len(s) /\ s[p1] = BACKTICK
      THEN MatchWrapped(s, SkipReSpace(s, p1 + 1), {BACKTICK})
      ELSE NoMatch

\* patterns[4]: `["']\\n\s*((?:query|mutation|subscription)[^"']+)["']`
MatchEscapedString(s, i) ==
  IF i <= Len(s) /\ s[i] \in {DQUOTE, "'"} /\ HasPrefixAt(s, i + 1, <<"\\","n">>)
  THEN MatchWrapped(s, SkipReSpace(s, i + 3), {DQUOTE, "'"})
  ELSE NoMatch

PatternCount == 5

MatchPattern(k, s, i) ==
  CASE k = 1 -> MatchNamedWithParams(s, i)
    [] k = 2 -> MatchAnonymousWithParams(s, i)
    [] k = 3 -> MatchNamedNoParams(s, i)
    [] k = 4 -> MatchTemplateLiteral(s, i)
    [] k = 5 -> MatchEscapedString(s, i)

\* re.FindAllStringSubmatch(content, -1): leftmost matches, each search
\* resuming where the previous match ended; the opString of each.
RECURSIVE FindAllMatches(_, _, _)
FindAllMatches(k, s, i) ==
  LET starts == {j \in i..Len(s) : MatchPattern(k, s, j).end # 0}
  IN  IF starts = {} THEN <<>>
      ELSE LET m == MatchPattern(k, s, First(starts))
           IN  <<m.text>> \o FindAllMatches(k, s, m.end + 1)

\* "Clean up escaped characters"
Unescape(opString) ==
  ReplaceAll(
    ReplaceAll(
      ReplaceAll(opString, <<"\\","n">>, <<"\n">>),
      <<"\\","t">>, <<" "," ">>),
    <<"\\",DQUOTE>>, <<DQUOTE>>)

\* The operations that parse, in the order of the candidates.
RECURSIVE ParseCandidates(_)
ParseCandidates(cands) ==
  IF cands = <<>> THEN <<>>
  ELSE LET r == ParseGraphQLOperation(Unescape(Head(cands)))
       IN  (IF r.err THEN <<>> ELSE <<r.op>>) \o ParseCandidates(Tail(cands))

RECURSIVE ExtractWithPatterns(_, _)
ExtractWithPatterns(content, k) ==
  IF k > PatternCount THEN <<>>
  ELSE ParseCandidates(FindAllMatches(k, content, 1))
       \o ExtractWithPatterns(content, k + 1)

ExtractOperationsFromJS(content) == ExtractWithPatterns(content, 1)

(***************************************************************************)
(* createOperationKey and DeduplicateOperations                            *)
(***************************************************************************)
Swap(a, i, j) == [a EXCEPT ![i] = a[j], ![j] = a[i]]

\* for j := j; j < len(a); j++ { if a[i] > a[j] { swap } }
RECURSIVE SortInner(_, _, _)
SortInner(a, i, j) ==
  IF j > Len(a) THEN a
  ELSE SortInner(IF StringGreater(a[i], a[j]) THEN Swap(a, i, j) ELSE a,
                 i, j + 1)

\* for i := range a { ... }: the "simple string sort" of createOperationKey
RECURSIVE SortOuter(_, _)
SortOuter(a, i) ==
  IF i > Len(a) THEN a ELSE SortOuter(SortInner(a, i, i + 1), i + 1)

SortStrings(a) == SortOuter(a, 1)

\* for k := range m: the keys in some order (Go leaves the order open; the
\* only use sorts them, and the keys of a map are distinct).
RECURSIVE MapKeys(_)
MapKeys(keys) ==
  IF keys = {} THEN <<>>
  ELSE LET k == CHOOSE x \in keys : TRUE
       IN  <<k>> \o MapKeys(keys \ {k})

\* key.WriteString(k); ":"; op.Variables[k]; ","  for each sorted key
RECURSIVE WriteVariables(_, _)
WriteVariables(vars, keys) ==
  IF keys = <<>> THEN <<>>
  ELSE Head(keys) \o <<":">> \o vars[Head(keys)] \o <<",">>
       \o WriteVariables(vars, Tail(keys))

\* key.WriteString("|"); field  for each sorted field
RECURSIVE WriteFields(_)
WriteFields(fields) ==
  IF fields = <<>> THEN <<>>
  ELSE <<"|">> \o Head(fields) \o WriteFields(Tail(fields))

\* The key built from the components, used when the normalized raw text is
\* empty.
ComponentKey(op) ==
  op.Type \o <<"|">> \o op.Name \o <<"|">>
  \o WriteVariables(op.Variables, SortStrings(MapKeys(DOMAIN op.Variables)))
  \o WriteFields(SortStrings(op.Fields))

\* A createOperationKey that looks at the kind only.
KindKey(op) == op.Type

\* A createOperationKey that takes the raw text as it is.
RawTextKey(op) ==
  IF op.Raw = <<>> THEN ComponentKey(op) ELSE op.Raw

\* if normalized != "" { return normalized }, else the key of components
KeyFrom(op, normalized) ==
  IF normalized = <<>> THEN ComponentKey(op) ELSE normalized

createOperationKey(op) == KeyFrom(op, normalizeGraphQL(op.Raw))

RECURSIVE DedupeScan(_, _, _)

\* if !seen[key] { seen[key] = true; unique = append(unique, op) }
ScanNext(operations, seen, unique, key) ==
  IF key \in seen
  THEN DedupeScan(Tail(operations), seen, unique)
  ELSE DedupeScan(Tail(operations), seen \cup {key},
                  Append(unique, Head(operations)))

DedupeScan(operations, seen, unique) ==
  IF operations = <<>> THEN unique
  ELSE ScanNext(operations, seen, unique,
                createOperationKey(Head(operations)))

RECURSIVE Reverse(_)
Reverse(a) == IF a = <<>> THEN <<>> ELSE Append(Reverse(Tail(a)), Head(a))

\* A DeduplicateOperations that keeps the last occurrence of each key.
KeepLastOccurrence(operations) ==
  Reverse(DedupeScan(Reverse(operations), {}, <<>>))

DeduplicateOperations(operations) == DedupeScan(operations, {}, <<>>)

(***************************************************************************)
(* inferType and inferTypeStructure                                        *)
(*                                                                         *)
(* A decoded JSON value (Go interface{}) is a record tagged by its dynamic *)
(* type: [t |-> "string", s], [t |-> "number", num, den] (the float64      *)
(* num/den), [t |-> "bool", b], [t |-> "null"], [t |-> "array", a] with a  *)
(* a sequence, [t |-> "object", o] with o a function from member names.    *)
(* An inferred type is a record too: the string "String" is                *)
(* [type |-> "String"], the map {"type": "List", "of": x} is               *)
(* [type |-> "List", of |-> x], and so on.                                 *)
(***************************************************************************)
RECURSIVE inferType(_)
inferType(value) ==
  CASE value.t = "string" -> "String"
    [] value.t = "number" ->
         \* v == float64(int(v)), for values within the range of int
         IF value.num % value.den = 0 THEN "Int" ELSE "Float"
    [] value.t = "bool"   -> "Boolean"
    [] value.t = "array"  ->
         IF Len(value.a) > 0 THEN "[" \o inferType(value.a[1]) \o "]"
         ELSE "[Unknown]"
    [] value.t = "object" -> "Object"
    [] value.t = "null"   -> "Null"
    [] OTHER              -> "Unknown"

\* An inferTypeStructure whose List node describes the last element.
RECURSIVE DescribeLastElement(_)
DescribeLastElement(value) ==
  CASE value.t = "object" ->
         [type   |-> "Object",
          fields |-> [key \in DOMAIN value.o |->
                        DescribeLastElement(value.o[key])]]
    [] value.t = "array" ->
         IF Len(value.a) > 0
         THEN [type |-> "List",
               of   |-> DescribeLastElement(value.a[Len(value.a)])]
         ELSE [type |-> "List", of |-> [type |-> "Unknown"]]
    [] OTHER -> [type |-> inferType(value)]

RECURSIVE inferTypeStructure(_)
inferTypeStructure(value) ==
  CASE value.t = "object" ->
         [type   |-> "Object",
          fields |-> [key \in DOMAIN value.o |->
                        inferTypeStructure(value.o[key])]]
    [] value.t = "array" ->
         IF Len(value.a) > 0
         THEN [type |-> "List", of |-> inferTypeStructure(value.a[1])]
         ELSE [type |-> "List", of |-> [type |-> "Unknown"]]
    [] OTHER -> [type |-> inferType(value)]

(***************************************************************************)
(* The capture pipeline (capture.go): the inputs of the model              *)
(***************************************************************************)
\* Bounds of the model.
MaxEvents == 2        \* network events the correlator receives in a run
MaxRequestIDs == 2    \* distinct request identifiers
ChanCap == 1          \* capacity of jsURLs and gqlCaptures (100 in main)

RequestIDs == 1..MaxRequestIDs

\* req.PostData: nil, or a body described by what the code asks of it:
\* keyword (it contains "query" or "mutation"), json (json.Unmarshal into a
\* struct succeeds), and then its "query" and "variables" members.
NoPostData == [nil |-> TRUE]

QueryA == <<"q","u","e","r","y"," ","Q","(","$","i","d",":"," ","I","D","!",")",
            " ","{"," ","a"," ","}">>
QueryB == <<"m","u","t","a","t","i","o","n"," ","M"," ","{"," ","b"," ","}">>

BodyQueryWithVariables ==
  [nil |-> FALSE, keyword |-> TRUE, json |-> TRUE, query |-> QueryA,
   variables |-> MapPut(EmptyMap, <<"i","d">>, [t |-> "string", s |-> "1"])]
BodyQueryNoVariables ==
  [nil |-> FALSE, keyword |-> TRUE, json |-> TRUE, query |-> QueryB,
   variables |-> EmptyMap]
\* a raw GraphQL document, or a JSON array of batched operations
BodyNotJSONObject ==
  [nil |-> FALSE, keyword |-> TRUE, json |-> FALSE, query |-> <<>>,
   variables |-> EmptyMap]

\* a JSON object without a query member, as a persisted-query request
BodyJSONWithoutQuery ==
  [nil |-> FALSE, keyword |-> FALSE, json |-> TRUE, query |-> <<>>,
   variables |-> MapPut(EmptyMap, <<"i","d">>, [t |-> "string", s |-> "1"])]

\* URLs of the model.
GraphQLURL == "https://app/graphql"
ApiURL == "https://app/api"
ScriptA == "https://app/a.js"
ScriptB == "https://app/b.js"

\* strings.Contains(strings.ToLower(url), "graphql")
URLHasMarker(url) == url \in {GraphQLURL}
\* strings.HasSuffix(url, ".js")
HasSuffixJS(url) == url \in {ScriptA, ScriptB}
\* strings.Contains(strings.ToLower(contentType), "application/graphql")
ContentTypeHasMarker(contentType) == contentType \in {"application/graphql"}

\* network.Request values the event source can send.
Requests ==
  { [URL |-> GraphQLURL, ContentType |-> "application/json",
     PostData |-> BodyQueryWithVariables],
    [URL |-> ApiURL, ContentType |-> "application/json",
     PostData |-> BodyQueryNoVariables],
    [URL |-> ApiURL, ContentType |-> "application/graphql",
     PostData |-> BodyNotJSONObject],
    [URL |-> GraphQLURL, ContentType |-> "application/json",
     PostData |-> BodyJSONWithoutQuery],
    [URL |-> ApiURL, ContentType |-> "", PostData |-> NoPostData] }

ResponseURLs == {GraphQLURL, ScriptA, ScriptB}

\* What client.Network.GetResponseBody and json.Unmarshal can come to: the
\* fetch fails; the body is empty; it is not JSON; it is the JSON text
\* null; it is a JSON object.
BodyOutcomes == {"fetchError", "empty", "notJSON", "jsonNull", "jsonObject"}

\* A nil interface{}: no response, and also what the JSON text null
\* decodes to.
NilValue == [t |-> "null"]

ExampleResponse ==
  [t |-> "object",
   o |-> [k \in {"user"} |->
            [t |-> "object",
             o |-> [id   |-> [t |-> "string", s |-> "1"],
                    name |-> [t |-> "string", s |-> "Ann"]]]]]

\* A decoder that takes whatever it is given for a JSON object.
DecodeAnything(outcome) == [err |-> FALSE, value |-> ExampleResponse]

\* err == nil && responseBody.Body != "", then
\* json.Unmarshal([]byte(responseBody.Body), &responseData)
DecodeBody(outcome) ==
  CASE outcome = "jsonObject" -> [err |-> FALSE, value |-> ExampleResponse]
    [] outcome = "jsonNull"   -> [err |-> FALSE, value |-> NilValue]
    [] OTHER                  -> [err |-> TRUE, value |-> NilValue]

\* The text of the two script assets.
\* QueryA as a bundle carries it, laid out over three lines.
ScriptAQuery ==
  <<"q","u","e","r","y"," ","Q","(","$","i","d",":"," ","I","D","!",")",
    " ","{","\n"," "," ","a","\n","}">>
ScriptAText ==
  <<"x","=","g","q","l",BACKTICK,"\n"," "," ">> \o ScriptAQuery
  \o <<BACKTICK,";">>
ScriptBText == <<"v","a","r"," ","y","=","1",";">>

(***************************************************************************)
(* isGraphQLRequest, extractQueryFromRequest, extractVariablesFromRequest  *)
(***************************************************************************)
\* An isGraphQLRequest that looks at the URL only.
URLOnlyRequest(req) == URLHasMarker(req.URL)

isGraphQLRequest(req) ==
  \/ URLHasMarker(req.URL)
  \/ ContentTypeHasMarker(req.ContentType)
  \/ ~req.PostData.nil /\ req.PostData.keyword

extractQueryFromRequest(req) ==
  IF req.PostData.nil THEN <<>>
  ELSE IF ~req.PostData.json THEN <<>>
  ELSE req.PostData.query

extractVariablesFromRequest(req) ==
  IF req.PostData.nil THEN EmptyMap
  ELSE IF ~req.PostData.json THEN EmptyMap
  ELSE req.PostData.variables

(***************************************************************************)
(* The capture pipeline: state                                             *)
(***************************************************************************)
VARIABLES
  ctxDone,            \* ctx.Done() is closed (from the start with -timeout 0)
  sessionDone,        \* the sessionDone channel is closed
  trace,              \* the events the correlator has received, in order
  requests,           \* the correlator's map RequestID -> request
  corrPc,             \* where the correlator goroutine is
  corrCapture,        \* the capture it is about to send
  jsURLs,             \* the buffer of channel jsURLs
  jsURLsClosed,
  gqlCaptures,        \* the buffer of channel gqlCaptures
  gqlCapturesClosed,
  captures,           \* the captures list of main, filled by the collector
  capturesDone,       \* the capturesDone channel is closed
  mainPc,             \* where main is
  mainURL,            \* jsURL of the iteration in progress
  processedURLs,      \* the keys of main's map processedURLs
  allOperations,
  progress,           \* the Progress counters
  saved,              \* what saveOperations was given and wrote
  loopStart,          \* how main came to its loop: "notStarted", then "open"
                      \* or, the deadline having expired, "expired" with
                      \* jsURLs empty and "expiredWithAssets" with URLs in it
  assetLog,           \* what main did with each URL it received, in order:
                      \* "skipped", "download" (started), "processed"
  fnPc, fnIn, fnOut   \* the function applied: where it is, its input, its output

pipeVars ==
  <<ctxDone, sessionDone, trace, requests, corrPc,
    corrCapture, jsURLs, jsURLsClosed, gqlCaptures, gqlCapturesClosed,
    captures, capturesDone, mainPc, mainURL, processedURLs, allOperations,
    progress, saved, loopStart, assetLog>>

fnVars == <<fnPc, fnIn, fnOut>>

vars == <<pipeVars,
                 loopStart, assetLog, fnVars>>

NoCapture ==
  [Query |-> <<>>, Variables |-> EmptyMap, Response |-> NilValue,
   Timestamp |-> 0, URL |-> ""]

NothingSaved ==
  [done |-> FALSE, operations |-> <<>>, captures |-> <<>>, ran |-> {},
   files |-> {}, failed |-> "none"]

\* The state when main has started the correlator and the collector and
\* called wd.Get (capture.go lines 735-781).
PipeInit ==
  /\ ctxDone \in BOOLEAN
  /\ sessionDone = FALSE
  /\ trace = <<>>
  /\ requests = EmptyMap
  /\ corrPc = "select"
  /\ corrCapture = NoCapture
  /\ jsURLs = <<>>
  /\ jsURLsClosed = FALSE
  /\ gqlCaptures = <<>>
  /\ gqlCapturesClosed = FALSE
  /\ captures = <<>>
  /\ capturesDone = FALSE
  /\ mainPc = "pageWait"
  /\ mainURL = ""
  /\ processedURLs = {}
  /\ allOperations = <<>>
  /\ progress = [JSFilesFound |-> 0, JSFilesDownloaded |-> 0,
                 JSFilesProcessed |-> 0, QueriesFound |-> 0,
                 MutationsFound |-> 0, NetworkCaptures |-> 0]
  /\ saved = NothingSaved
  /\ loopStart = "notStarted"
  /\ assetLog = <<>>

FnIdle == fnPc = "idle" /\ fnIn = <<>> /\ fnOut = <<>>

Init == PipeInit /\ FnIdle

(***************************************************************************)
(* The correlator goroutine of captureNetworkTraffic                       *)
(***************************************************************************)
\* time.Now(): the model's clock is the number of events received.
Now == Len(trace) + 1

\* The capture built at request time (lines 419-424).
RequestCapture(req, now) ==
  [Query     |-> extractQueryFromRequest(req),
   Variables |-> extractVariablesFromRequest(req),
   Response  |-> NilValue,
   Timestamp |-> now,
   URL       |-> req.URL]

\* A capture built at response time without the variables of the request.
ResponseCaptureBare(req, responseData, now, url) ==
  [Query     |-> extractQueryFromRequest(req),
   Variables |-> EmptyMap,
   Response  |-> responseData,
   Timestamp |-> now,
   URL       |-> url]

\* The capture built at response time (lines 453-459).
ResponseCapture(req, responseData, now, url) ==
  [Query     |-> extractQueryFromRequest(req),
   Variables |-> extractVariablesFromRequest(req),
   Response  |-> responseData,
   Timestamp |-> now,
   URL       |-> url]

\* A correlator that emits a capture only once it has the response.
EmitsWithResponse(capture) ==
  capture.Query # <<>> /\ capture.Response # NilValue

\* A correlator that emits every capture it builds.
EmitsAlways(capture) == TRUE

\* if capture.Query != "" (lines 426 and 461)
Emits(capture) == capture.Query # <<>>

\* An increment that is lost.
NoBump(counter) == progress

\* atomic.AddInt32(&progress.<counter>, 1)
Bump(counter) == [progress EXCEPT ![counter] = @ + 1]

\* A discovery that is not counted.
ForgetJSFile == progress

\* progress.AddJSFile(url): atomic.AddInt32(&p.JSFilesFound, 1)
AddJSFile == Bump("JSFilesFound")

\* A send that goes through at once and loses the value when the buffer is
\* full.
SendOrDrop(ch, v) ==
  [ok |-> TRUE, ch |-> IF Len(ch) < ChanCap THEN Append(ch, v) ELSE ch]

\* ch <- v on a channel made with make(chan T, n): the send goes through
\* only while the buffer has room, and the value goes to the back.
Send(ch, v) == [ok |-> Len(ch) < ChanCap, ch |-> Append(ch, v)]

\* case <-requestStream.Ready(), up to the send on gqlCaptures
CorrRecvRequest ==
  /\ corrPc = "select"
  /\ Len(trace) < MaxEvents
  /\ \E id \in RequestIDs, req \in Requests :
       LET capture == RequestCapture(req, Now)
       IN  /\ trace' = Append(trace, [kind |-> "request", id |-> id,
                                      req |-> req])
           /\ requests' = MapPut(requests, id, req)
           /\ IF isGraphQLRequest(req) /\ Emits(capture)
              THEN /\ progress' = Bump("NetworkCaptures")
                   /\ corrCapture' = capture
                   /\ corrPc' = "sendRequestCapture"
              ELSE UNCHANGED <<progress, corrCapture, corrPc>>
  /\ UNCHANGED <<ctxDone, sessionDone, jsURLs, jsURLsClosed,
                 gqlCaptures, gqlCapturesClosed, captures, capturesDone,
                 mainPc, mainURL, processedURLs, allOperations, saved,
                 loopStart, assetLog, fnVars>>

\* gqlCaptures <- capture (line 428): blocks while the buffer is full
CorrSendRequestCapture ==
  /\ corrPc = "sendRequestCapture"
  /\ Send(gqlCaptures, corrCapture).ok
  /\ gqlCaptures' = Send(gqlCaptures, corrCapture).ch
  /\ corrCapture' = NoCapture
  /\ corrPc' = "select"
  /\ UNCHANGED <<ctxDone, sessionDone, trace, requests,
                 jsURLs, jsURLsClosed, gqlCapturesClosed, captures,
                 capturesDone, mainPc, mainURL, processedURLs, allOperations,
                 progress, saved,
                 loopStart, assetLog, fnVars>>

\* A cleanup that leaves the table as it is.
KeepRequest(id) == requests

\* delete(requests, resp.RequestID)
DeleteRequest(id) == [k \in DOMAIN requests \ {id} |-> requests[k]]

\* "Handle GraphQL responses" (lines 444-470) for the response event ev, the
\* last of the trace tr, up to the send on gqlCaptures: the body is fetched
\* only for a stored GraphQL request, and what the fetch came to is noted in
\* the trace.
HandleResponse(ev, tr, prog) ==
  IF ev.id \in DOMAIN requests /\ isGraphQLRequest(requests[ev.id])
  THEN \E outcome \in BodyOutcomes :
         LET decoded == DecodeBody(outcome)
             capture == ResponseCapture(requests[ev.id], decoded.value,
                                        Len(tr), ev.URL)
         IN  /\ trace' = [tr EXCEPT ![Len(tr)].fetch = outcome]
             /\ IF ~decoded.err /\ Emits(capture)
                THEN /\ progress' = [prog EXCEPT !.NetworkCaptures = @ + 1]
                     /\ corrCapture' = capture
                     /\ corrPc' = "sendResponseCapture"
                     /\ UNCHANGED requests
                ELSE /\ progress' = prog
                     /\ corrCapture' = NoCapture
                     /\ corrPc' = "select"
                     /\ requests' = DeleteRequest(ev.id)
  ELSE /\ trace' = tr
       /\ progress' = prog
       /\ corrCapture' = NoCapture
       /\ corrPc' = "select"
       /\ requests' = DeleteRequest(ev.id)

ResponseEvent(id, url) ==
  [kind |-> "response", id |-> id, URL |-> url, fetch |-> "notFetched"]

\* case <-responseStream.Ready(): a script URL is counted (AddJSFile) and
\* then sent on jsURLs; any other response is handled at once.
CorrRecvResponse ==
  /\ corrPc = "select"
  /\ Len(trace) < MaxEvents
  /\ \E id \in RequestIDs, url \in ResponseURLs :
       LET ev == ResponseEvent(id, url)
       IN  IF HasSuffixJS(url)
           THEN /\ trace' = Append(trace, ev)
                /\ progress' = AddJSFile
                /\ corrPc' = "sendJS"
                /\ UNCHANGED <<requests, corrCapture>>
           ELSE HandleResponse(ev, Append(trace, ev), progress)
  /\ UNCHANGED <<ctxDone, sessionDone, jsURLs, jsURLsClosed,
                 gqlCaptures, gqlCapturesClosed, captures, capturesDone,
                 mainPc, mainURL, processedURLs, allOperations, saved,
                 loopStart, assetLog, fnVars>>

\* jsURLs <- resp.Response.URL (line 441): blocks while the buffer is full;
\* then the response is handled.
CorrSendJS ==
  /\ corrPc = "sendJS"
  /\ Send(jsURLs, trace[Len(trace)].URL).ok
  /\ jsURLs' = Send(jsURLs, trace[Len(trace)].URL).ch
  /\ HandleResponse(trace[Len(trace)], trace, progress)
  /\ UNCHANGED <<ctxDone, sessionDone, jsURLsClosed,
                 gqlCaptures, gqlCapturesClosed, captures, capturesDone,
                 mainPc, mainURL, processedURLs, allOperations, saved,
                 loopStart, assetLog, fnVars>>

\* gqlCaptures <- capture (line 463), then delete(requests, resp.RequestID)
CorrSendResponseCapture ==
  /\ corrPc = "sendResponseCapture"
  /\ Send(gqlCaptures, corrCapture).ok
  /\ gqlCaptures' = Send(gqlCaptures, corrCapture).ch
  /\ corrCapture' = NoCapture
  /\ requests' = DeleteRequest(trace[Len(trace)].id)
  /\ corrPc' = "select"
  /\ UNCHANGED <<ctxDone, sessionDone, trace, jsURLs,
                 jsURLsClosed, gqlCapturesClosed, captures, capturesDone,
                 mainPc, mainURL, processedURLs, allOperations, progress,
                 saved,
                 loopStart, assetLog, fnVars>>

\* Why Recv returns an error: the stream is closed, or the event that
\* arrived cannot be decoded.
RecvErrors == {"closed", "malformed"}

\* Recv returns an error on either stream (lines 410 and 434): return, and
\* the deferred closes run, gqlCaptures first.
CorrRecvError ==
  /\ corrPc = "select"
  /\ \E cause \in RecvErrors :
       trace' = Append(trace, [kind |-> "recvError", cause |-> cause])
  /\ gqlCapturesClosed' = TRUE
  /\ corrPc' = "closeJS"
  /\ UNCHANGED <<ctxDone, sessionDone, requests, corrCapture,
                 jsURLs, jsURLsClosed, gqlCaptures, captures, capturesDone,
                 mainPc, mainURL, processedURLs, allOperations, progress,
                 saved,
                 loopStart, assetLog, fnVars>>

\* defer close(jsURLs)
CorrCloseJS ==
  /\ corrPc = "closeJS"
  /\ jsURLsClosed' = TRUE
  /\ corrPc' = "done"
  /\ UNCHANGED <<ctxDone, sessionDone, trace, requests,
                 corrCapture, jsURLs, gqlCaptures, gqlCapturesClosed,
                 captures, capturesDone, mainPc, mainURL, processedURLs,
                 allOperations, progress, saved,
                 loopStart, assetLog, fnVars>>

Correlator ==
  \/ CorrRecvRequest
  \/ CorrSendRequestCapture
  \/ CorrRecvResponse
  \/ CorrSendJS
  \/ CorrSendResponseCapture
  \/ CorrRecvError
  \/ CorrCloseJS

(***************************************************************************)
(* The collector goroutine of main (lines 770-775)                         *)
(***************************************************************************)
\* for capture := range gqlCaptures { captures = append(captures, capture) }
CollectCapture ==
  /\ ~capturesDone
  /\ gqlCaptures # <<>>
  /\ captures' = Append(captures, Head(gqlCaptures))
  /\ gqlCaptures' = Tail(gqlCaptures)
  /\ UNCHANGED <<ctxDone, sessionDone, trace, requests,
                 corrPc, corrCapture, jsURLs, jsURLsClosed,
                 gqlCapturesClosed, capturesDone, mainPc, mainURL,
                 processedURLs, allOperations, progress, saved,
                 loopStart, assetLog, fnVars>>

\* the range ends when the channel is closed and drained: close(capturesDone)
CollectorDone ==
  /\ ~capturesDone
  /\ gqlCaptures = <<>>
  /\ gqlCapturesClosed
  /\ capturesDone' = TRUE
  /\ UNCHANGED <<ctxDone, sessionDone, trace, requests,
                 corrPc, corrCapture, jsURLs, jsURLsClosed, gqlCaptures,
                 gqlCapturesClosed, captures, mainPc, mainURL, processedURLs,
                 allOperations, progress, saved,
                 loopStart, assetLog, fnVars>>

Collector == CollectCapture \/ CollectorDone

(***************************************************************************)
(* The timer of ctx and the session monitor (lines 750 and 801-815)        *)
(***************************************************************************)
\* context.WithTimeout: the deadline passes
Timeout ==
  /\ ~ctxDone
  /\ ctxDone' = TRUE
  /\ UNCHANGED <<sessionDone, trace, requests, corrPc,
                 corrCapture, jsURLs, jsURLsClosed, gqlCaptures,
                 gqlCapturesClosed, captures, capturesDone, mainPc, mainURL,
                 processedURLs, allOperations, progress, saved,
                 loopStart, assetLog, fnVars>>

\* wd.CurrentURL() fails in the monitor, started after the page wait
SessionEnd ==
  /\ mainPc # "pageWait"
  /\ ~sessionDone
  /\ sessionDone' = TRUE
  /\ UNCHANGED <<ctxDone, trace, requests, corrPc,
                 corrCapture, jsURLs, jsURLsClosed, gqlCaptures,
                 gqlCapturesClosed, captures, capturesDone, mainPc, mainURL,
                 processedURLs, allOperations, progress, saved,
                 loopStart, assetLog, fnVars>>

(***************************************************************************)
(* main (lines 783-895)                                                    *)
(***************************************************************************)
\* select { case <-time.After(10 * time.Second): case <-ctx.Done(): }
MainPageWait ==
  /\ mainPc = "pageWait"
  /\ loopStart' = IF ~ctxDone THEN "open"
                  ELSE IF jsURLs = <<>> THEN "expired"
                  ELSE "expiredWithAssets"
  /\ mainPc' = "loop"
  /\ UNCHANGED <<ctxDone, sessionDone, trace, requests,
                 corrPc, corrCapture, jsURLs, jsURLsClosed, gqlCaptures,
                 gqlCapturesClosed, captures, capturesDone, mainURL,
                 processedURLs, allOperations, progress, saved, assetLog,
                 fnVars>>

\* A loop that takes every URL it receives as new.
NeverProcessed(url, processed) == FALSE

\* if processedURLs[jsURL]
AlreadyProcessed(url, processed) == url \in processed

\* case jsURL, ok := <-jsURLs with ok: select takes any ready case, so this
\* one is not held back by a ready sessionDone or ctx.Done().
MainRecvURL ==
  /\ mainPc = "loop"
  /\ jsURLs # <<>>
  /\ jsURLs' = Tail(jsURLs)
  /\ IF AlreadyProcessed(Head(jsURLs), processedURLs)
     THEN /\ assetLog' = Append(assetLog, [url  |-> Head(jsURLs),
                                           step |-> "skipped"])
          /\ UNCHANGED <<mainPc, mainURL, processedURLs>>
     ELSE /\ processedURLs' = processedURLs \cup {Head(jsURLs)}
          /\ mainURL' = Head(jsURLs)
          /\ assetLog' = Append(assetLog, [url  |-> Head(jsURLs),
                                           step |-> "download"])
          /\ mainPc' = "download"
  /\ UNCHANGED <<ctxDone, sessionDone, trace, requests,
                 corrPc, corrCapture, jsURLsClosed, gqlCaptures,
                 gqlCapturesClosed, captures, capturesDone, allOperations,
                 progress, saved, loopStart, fnVars>>

\* case jsURL, ok := <-jsURLs with !ok
MainChannelClosed ==
  /\ mainPc = "loop"
  /\ jsURLs = <<>>
  /\ jsURLsClosed
  /\ mainPc' = "waitCaptures"
  /\ UNCHANGED <<ctxDone, sessionDone, trace, requests,
                 corrPc, corrCapture, jsURLs, jsURLsClosed, gqlCaptures,
                 gqlCapturesClosed, captures, capturesDone, mainURL,
                 processedURLs, allOperations, progress, saved,
                 loopStart, assetLog, fnVars>>

\* case <-sessionDone
MainSessionDone ==
  /\ mainPc = "loop"
  /\ sessionDone
  /\ mainPc' = "waitCaptures"
  /\ UNCHANGED <<ctxDone, sessionDone, trace, requests,
                 corrPc, corrCapture, jsURLs, jsURLsClosed, gqlCaptures,
                 gqlCapturesClosed, captures, capturesDone, mainURL,
                 processedURLs, allOperations, progress, saved,
                 loopStart, assetLog, fnVars>>

\* case <-ctx.Done()
MainTimeout ==
  /\ mainPc = "loop"
  /\ ctxDone
  /\ mainPc' = "waitCaptures"
  /\ UNCHANGED <<ctxDone, sessionDone, trace, requests,
                 corrPc, corrCapture, jsURLs, jsURLsClosed, gqlCaptures,
                 gqlCapturesClosed, captures, capturesDone, mainURL,
                 processedURLs, allOperations, progress, saved,
                 loopStart, assetLog, fnVars>>

\* downloadJS: client.Get or io.ReadAll fails (continue), or the counter of
\* downloads goes up and the content is at hand.
MainDownload ==
  /\ mainPc = "download"
  /\ \E ok \in BOOLEAN :
       IF ok THEN /\ progress' = Bump("JSFilesDownloaded")
                  /\ mainPc' = "extract"
                  /\ UNCHANGED mainURL
             ELSE /\ mainPc' = "loop"
                  /\ mainURL' = ""
                  /\ UNCHANGED progress
  /\ UNCHANGED <<ctxDone, sessionDone, trace, requests,
                 corrPc, corrCapture, jsURLs, jsURLsClosed, gqlCaptures,
                 gqlCapturesClosed, captures, capturesDone, processedURLs,
                 allOperations, saved,
                 loopStart, assetLog, fnVars>>

\* The operations found in the two script assets.
ScriptAOperations == ExtractOperationsFromJS(ScriptAText)
ScriptBOperations == ExtractOperationsFromJS(ScriptBText)
ScriptOperations(url) ==
  IF url = ScriptA THEN ScriptAOperations ELSE ScriptBOperations

\* countOperationType(operations, opType)
countOperationType(operations, opType) ==
  Cardinality({i \in 1..Len(operations) : operations[i].Type = opType})

\* extractGraphQL, then append and count the file as processed
MainExtract ==
  /\ mainPc = "extract"
  /\ LET operations == ScriptOperations(mainURL)
     IN  /\ allOperations' = allOperations \o operations
         /\ progress' =
              [progress EXCEPT
                 !.QueriesFound = @ + countOperationType(operations, KwQuery),
                 !.MutationsFound =
                    @ + countOperationType(operations, KwMutation),
                 !.JSFilesProcessed = @ + 1]
  /\ assetLog' = Append(assetLog, [url |-> mainURL, step |-> "processed"])
  /\ mainURL' = ""
  /\ mainPc' = "loop"
  /\ UNCHANGED <<ctxDone, sessionDone, trace, requests,
                 corrPc, corrCapture, jsURLs, jsURLsClosed, gqlCaptures,
                 gqlCapturesClosed, captures, capturesDone, processedURLs,
                 saved, loopStart, fnVars>>

\* A wait that is over at once, whatever the collector does.
NoWait == TRUE

\* <-capturesDone returns: the channel is closed
CapturesDoneReceived == capturesDone

\* progress.Report(), then <-capturesDone (line 863)
MainWaitCaptures ==
  /\ mainPc = "waitCaptures"
  /\ CapturesDoneReceived
  /\ mainPc' = "merge"
  /\ UNCHANGED <<ctxDone, sessionDone, trace, requests,
                 corrPc, corrCapture, jsURLs, jsURLsClosed, gqlCaptures,
                 gqlCapturesClosed, captures, capturesDone, mainURL,
                 processedURLs, allOperations, progress, saved,
                 loopStart, assetLog, fnVars>>

AnyType == <<"A","n","y">>

\* A merge that types the capture's variables "Any" whatever the text
\* declares.
OverwriteVariables(capture) ==
  IF capture.Query = <<>> THEN <<>>
  ELSE LET r == ParseGraphQLOperation(capture.Query)
       IN  IF r.err THEN <<>>
           ELSE IF capture.Variables # EmptyMap
           THEN << [r.op EXCEPT !.Variables =
                      [k \in DOMAIN capture.Variables |-> AnyType]] >>
           ELSE << r.op >>

\* The operation a capture becomes (lines 867-879): none for an empty or
\* unparsable query; variables the text does not declare are typed "Any".
CaptureOperations(capture) ==
  IF capture.Query = <<>> THEN <<>>
  ELSE LET r == ParseGraphQLOperation(capture.Query)
       IN  IF r.err THEN <<>>
           ELSE IF capture.Variables # EmptyMap /\ r.op.Variables = EmptyMap
           THEN << [r.op EXCEPT !.Variables =
                      [k \in DOMAIN capture.Variables |-> AnyType]] >>
           ELSE << r.op >>

RECURSIVE MergeCaptures(_)
MergeCaptures(cs) ==
  IF cs = <<>> THEN <<>>
  ELSE CaptureOperations(Head(cs)) \o MergeCaptures(Tail(cs))

\* for _, capture := range captures { ... } (lines 866-880)
MainMerge ==
  /\ mainPc = "merge"
  /\ allOperations' = allOperations \o MergeCaptures(captures)
  /\ mainPc' = "save"
  /\ UNCHANGED <<ctxDone, sessionDone, trace, requests,
                 corrPc, corrCapture, jsURLs, jsURLsClosed, gqlCaptures,
                 gqlCapturesClosed, captures, capturesDone, mainURL,
                 processedURLs, progress, saved,
                 loopStart, assetLog, fnVars>>

\* The files saveOperations writes, in order; it returns at the first step
\* that fails.
OutputFiles == <<"graphql", "json", "log">>

\* What saveOperations leaves when step failAt fails (0: MkdirAll;
\* Len(OutputFiles) + 1: none): the formatters run up to the failing one,
\* the files before it are written, and the error names it.
WriteOutputs(unique, cs, failAt) ==
  [done       |-> TRUE,
   operations |-> IF failAt = 0 THEN <<>> ELSE unique,
   captures   |-> cs,
   ran        |-> {OutputFiles[i] :
                     i \in {j \in 1..Len(OutputFiles) : j <= failAt}},
   files      |-> {OutputFiles[i] :
                     i \in {j \in 1..Len(OutputFiles) : j < failAt}},
   failed     |-> IF failAt = 0 THEN "mkdir"
                  ELSE IF failAt > Len(OutputFiles) THEN "none"
                  ELSE OutputFiles[failAt]]

\* saveOperations(operations, captures, baseName): the outcomes it can come
\* to, one for each step that can fail and one for none.
saveOperations(operations, cs) ==
  LET unique == DeduplicateOperations(operations)
  IN  {WriteOutputs(unique, cs, failAt) :
         failAt \in 0..(Len(OutputFiles) + 1)}

\* if err := saveOperations(allOperations, captures, baseFileName)
MainSave ==
  /\ mainPc = "save"
  /\ saved' \in saveOperations(allOperations, captures)
  /\ mainPc' = "done"
  /\ UNCHANGED <<ctxDone, sessionDone, trace, requests,
                 corrPc, corrCapture, jsURLs, jsURLsClosed, gqlCaptures,
                 gqlCapturesClosed, captures, capturesDone, mainURL,
                 processedURLs, allOperations, progress,
                 loopStart, assetLog, fnVars>>

Main ==
  \/ MainPageWait
  \/ MainRecvURL
  \/ MainChannelClosed
  \/ MainSessionDone
  \/ MainTimeout
  \/ MainDownload
  \/ MainExtract
  \/ MainWaitCaptures
  \/ MainMerge
  \/ MainSave

Next ==
  \/ Correlator
  \/ Collector
  \/ Timeout
  \/ SessionEnd
  \/ Main

Spec == Init /\ [][Next]_vars

(***************************************************************************)
(* normalizeGraphQL applied to operation texts                             *)
(***************************************************************************)
\* The functions are checked on inputs put together from pieces: a text is
\* at most MaxPieces pieces of source text, one after the other.
MaxPieces == 4

TextPieces ==
  { <<"q","u","e","r","y"," ","Q"," ","{">>,
    <<" ","a"," ">>,
    <<"}">>,
    <<"#","c","\n">>,
    <<" ","#">>,
    <<"\n","\t">>,
    <<"(",":"," ",",">>,
    <<VT>> }

RECURSIVE TextsOf(_, _)
TextsOf(pieces, n) ==
  IF n = 0 THEN {<<>>}
  ELSE LET shorter == TextsOf(pieces, n - 1)
       IN  shorter \cup {t \o p : t \in shorter, p \in pieces}

NormalizeInputs == TextsOf(TextPieces, MaxPieces)

\* The pipeline at rest while a function is checked.
PipeIdle == PipeInit /\ ~ctxDone

InitNormalize ==
  /\ PipeIdle
  /\ fnPc = "input"
  /\ fnIn \in NormalizeInputs
  /\ fnOut = <<>>

\* normalizeGraphQL(x)
NormalizeOnce ==
  /\ fnPc = "input"
  /\ fnOut' = <<normalizeGraphQL(fnIn)>>
  /\ fnPc' = "once"
  /\ UNCHANGED <<fnIn, pipeVars>>

\* normalizeGraphQL(normalizeGraphQL(x))
NormalizeTwice ==
  /\ fnPc = "once"
  /\ fnOut' = Append(fnOut, normalizeGraphQL(fnOut[1]))
  /\ fnPc' = "twice"
  /\ UNCHANGED <<fnIn, pipeVars>>

NextNormalize == NormalizeOnce \/ NormalizeTwice

SpecNormalize == InitNormalize /\ [][NextNormalize]_vars

\* C6: normalizeGraphQL is idempotent: normalizing an already normalized
\* operation text gives that same text again.
C6_NormalizeIdempotent ==
  fnPc = "twice" => fnOut[2] = fnOut[1]

\* An operation text with a comment, a tab and line breaks has been
\* normalized twice, and normalizing changed it.
C6_Witness ==
  /\ fnPc = "twice"
  /\ fnIn = <<"q","u","e","r","y"," ","Q"," ","{">> \o <<"#","c","\n">>
            \o <<" ","a"," ">> \o <<"}">>
  /\ fnOut[1] = <<"q","u","e","r","y"," ","Q","{","a","}">>
  /\ fnOut[2] = fnOut[1]

(***************************************************************************)
(* DeduplicateOperations applied to operation lists                        *)
(***************************************************************************)
MaxOperations == 3

Operation(type, name, fields, raw) ==
  [Type |-> type, Name |-> name, Variables |-> EmptyMap, Fields |-> fields,
   Raw |-> raw]

\* Operations as the parser and the callers of the package build them: with
\* raw text (two formattings of one text, and a different text), without
\* raw text (two orders of one field list, and a different name), and with
\* a raw text made of a comment only; and one whose raw text is the text
\* the components of another are written to.
OperationPool ==
  { Operation(KwQuery, <<"Q">>, <<<<"a">>>>, <<"q","u","e","r","y"," ","Q"," ","{"," ","a"," ","}">>),
    Operation(KwQuery, <<"Q">>, <<<<"a">>>>,
              <<"q","u","e","r","y"," ","Q"," ","{","\n","\t","a"," ","#"," ","c","\n","}">>),
    Operation(KwMutation, <<"M">>, <<<<"b">>>>, <<"m","u","t","a","t","i","o","n"," ","M"," ","{"," ","b"," ","}">>),
    Operation(KwQuery, <<"R">>, <<<<"a">>, <<"b">>>>, <<>>),
    Operation(KwQuery, <<"R">>, <<<<"b">>, <<"a">>>>, <<>>),
    Operation(KwQuery, <<"S">>, <<<<"a">>>>, <<>>),
    Operation(KwQuery, <<"T">>, <<<<"a">>>>, <<"#"," ","t">>),
    Operation(KwQuery, <<"T">>, <<<<"a">>>>, <<>>),
    Operation(KwMutation, <<"U">>, <<<<"b">>>>, <<"#"," ","u">>),
    Operation(KwQuery, <<"S">>, <<<<"a">>>>,
              <<"q","u","e","r","y","|","S","|","|","a">>) }

RECURSIVE ListsOf(_, _)
ListsOf(pool, n) ==
  IF n = 0 THEN {<<>>}
  ELSE LET shorter == ListsOf(pool, n - 1)
       IN  shorter \cup {Append(l, op) : l \in shorter, op \in pool}

DedupeInputs == ListsOf(OperationPool, MaxOperations)

InitDedupe ==
  /\ PipeIdle
  /\ fnPc = "input"
  /\ fnIn \in DedupeInputs
  /\ fnOut = <<>>

\* DeduplicateOperations(L)
DedupeOnce ==
  /\ fnPc = "input"
  /\ fnOut' = <<DeduplicateOperations(fnIn)>>
  /\ fnPc' = "once"
  /\ UNCHANGED <<fnIn, pipeVars>>

\* DeduplicateOperations(DeduplicateOperations(L))
DedupeTwice ==
  /\ fnPc = "once"
  /\ fnOut' = Append(fnOut, DeduplicateOperations(fnOut[1]))
  /\ fnPc' = "twice"
  /\ UNCHANGED <<fnIn, pipeVars>>

NextDedupe == DedupeOnce \/ DedupeTwice

SpecDedupe == InitDedupe /\ [][NextDedupe]_vars

\* (kind, name, sorted variable pairs, sorted field list): the variable
\* pairs as the map they make, the fields in byte order.
ComponentTuple(op) ==
  <<op.Type, op.Name, op.Variables, SortStrings(op.Fields)>>

RECURSIVE SubsequenceAt(_, _, _)
SubsequenceAt(L, keep, i) ==
  IF i > Len(L) THEN <<>>
  ELSE (IF i \in keep THEN <<L[i]>> ELSE <<>>) \o SubsequenceAt(L, keep, i + 1)

\* The first occurrence of each identity key in L.
FirstOccurrences(L) ==
  SubsequenceAt(L,
                {i \in 1..Len(L) :
                   \A j \in 1..(i - 1) :
                     createOperationKey(L[j]) # createOperationKey(L[i])},
                1)

\* C7: DeduplicateOperations is idempotent, and its output is the list of
\* the first occurrences of each identity key, in input order, each entry
\* as it was in the input.
C7_IdempotentFirstOccurrences ==
  /\ fnPc # "input" => fnOut[1] = FirstOccurrences(fnIn)
  /\ fnPc = "twice" => fnOut[2] = fnOut[1]

\* Two formattings of one text went in with another operation between
\* them; the first formatting and the other operation came out, in that
\* order, and a second pass kept both.
C7_Witness ==
  /\ fnPc = "twice"
  /\ Len(fnIn) = 3
  /\ fnIn[1].Raw # fnIn[3].Raw
  /\ createOperationKey(fnIn[1]) = createOperationKey(fnIn[3])
  /\ fnOut[1] = <<fnIn[1], fnIn[2]>>
  /\ fnOut[2] = fnOut[1]

(***************************************************************************)
(* DeduplicateOperations applied to two formattings of one operation       *)
(***************************************************************************)
\* What may stand between two tokens of an operation text: nothing, a
\* space, a line break with indentation, a blank line, a line comment.
Fillers ==
  { <<>>,
    <<" ">>,
    <<"\r","\n","\t">>,
    <<"\n","\n"," "," ">>,
    <<" ","#"," ","c","\n">> }

\* Between two names there is at least a space.
Separators == Fillers \ {<<>>}

\* query Q { a }, laid out with the fillers g[1..6]
Layout(g) ==
  g[1] \o KwQuery \o g[2] \o <<"Q">> \o g[3] \o <<"{">> \o g[4] \o <<"a">>
  \o g[5] \o <<"}">> \o g[6]

Layouts ==
  { <<g1, g2, g3, g4, g5, g6>> :
      g1 \in Fillers, g2 \in Separators, g3 \in Fillers, g4 \in Fillers,
      g5 \in Fillers, g6 \in Fillers }

\* The layouts the other operation of the pair has: on one line, without
\* any optional space, and indented with comments.
ReferenceLayouts ==
  { <<<<>>, <<" ">>, <<" ">>, <<" ">>, <<" ">>, <<>>>>,
    <<<<>>, <<" ">>, <<>>, <<>>, <<>>, <<>>>>,
    << <<" ","#"," ","c","\n">>, <<"\r","\n","\t">>, <<" ","#"," ","c","\n">>,
       <<"\n","\n"," "," ">>, <<" ","#"," ","c","\n">>, <<"\r","\n","\t">> >> }

InitVariants ==
  /\ PipeIdle
  /\ fnPc = "input"
  /\ \E g \in Layouts, h \in ReferenceLayouts, swap \in BOOLEAN :
       LET op    == Operation(KwQuery, <<"Q">>, <<<<"a">>>>, Layout(g))
           other == Operation(KwQuery, <<"Q">>, <<<<"a">>>>, Layout(h))
       IN  fnIn = IF swap THEN <<other, op>> ELSE <<op, other>>
  /\ fnOut = <<>>

\* DeduplicateOperations on the list of the two
DedupeVariants ==
  /\ fnPc = "input"
  /\ fnOut' = <<DeduplicateOperations(fnIn)>>
  /\ fnPc' = "once"
  /\ UNCHANGED <<fnIn, pipeVars>>

NextVariants == DedupeVariants

SpecVariants == InitVariants /\ [][NextVariants]_vars

\* C8: of two operations whose raw texts differ only in whitespace and
\* line comments between the tokens and around the text, exactly one is
\* retained: the first.
C8_OneOfTwoFormattings ==
  fnPc = "once" => fnOut[1] = <<fnIn[1]>>

\* A one-line text and a text with comments, line breaks and indentation
\* went in, and one came out.
C8_Witness ==
  /\ fnPc = "once"
  /\ fnIn[1].Raw = <<"q","u","e","r","y"," ","Q"," ","{"," ","a"," ","}">>
  /\ \E k \in 1..Len(fnIn[2].Raw) : fnIn[2].Raw[k] = "#"
  /\ \E k \in 1..Len(fnIn[2].Raw) : fnIn[2].Raw[k] = "	"
  /\ Len(fnOut[1]) = 1

(***************************************************************************)
(* ExtractOperationsFromJS applied to one named operation with parameters  *)
(* and a nested selection                                                  *)
(***************************************************************************)
Keywords == {KwQuery, KwMutation, KwSubscription}

OperationNames == {<<"F","o","o">>, <<"g","e","t","_","2">>}

\* Parameter lists: the text between the parentheses and the map it
\* declares.
ParameterLists ==
  { [text |-> <<"$","i","d",":"," ","I","D","!">>,
     vars |-> MapPut(EmptyMap, <<"i","d">>, <<"I","D","!">>)],
    [text |-> <<"$","i","d",":","I","D","!",",","$","n",":"," ","I","n","t">>,
     vars |-> MapPut(MapPut(EmptyMap, <<"i","d">>, <<"I","D","!">>),
                     <<"n">>, <<"I","n","t">>)],
    [text |-> <<"$","i","d","s",":"," ","[","I","D","!","]","!">>,
     vars |-> MapPut(EmptyMap, <<"i","d","s">>, <<"[","I","D","!","]","!">>)] }

\* Top-level fields with a nested selection: the name and the text.
TopLevelFields ==
  { [name |-> <<"u","s","e","r">>,
     text |-> <<"u","s","e","r","(","i","d",":"," ","$","i","d",")"," ","{"," ","n","a","m","e"," ","}">>],
    [name |-> <<"m","e">>,
     text |-> <<"m","e"," ","{"," ","i","d"," ","n","a","m","e"," ","}">>],
    [name |-> <<"i","t","e","m","s">>,
     text |-> <<"i","t","e","m","s","(","f","i","r","s","t",":"," ","2",")"," ","{","\n"," "," "," "," ","i","d","\n"," "," ","}">>] }

\* The space between the parts: one space, or none where none is needed.
Spacings == {<<" ">>, <<>>}

OperationText(kw, name, params, field, sp) ==
  kw \o <<" ">> \o name \o <<"(">> \o params.text \o <<")">> \o sp
  \o <<"{">> \o sp \o field.text \o sp \o <<"}">>

InitExtract ==
  /\ PipeIdle
  /\ fnPc = "input"
  /\ \E kw \in Keywords, name \in OperationNames, params \in ParameterLists,
        field \in TopLevelFields, sp \in Spacings :
       fnIn = [text      |-> OperationText(kw, name, params, field, sp),
               keyword   |-> kw,
               name      |-> name,
               variables |-> params.vars,
               field     |-> field.name]
  /\ fnOut = <<>>

\* operations, _ := ExtractOperationsFromJS(text)
ExtractOnce ==
  /\ fnPc = "input"
  /\ fnOut' = ExtractOperationsFromJS(fnIn.text)
  /\ fnPc' = "once"
  /\ UNCHANGED <<fnIn, pipeVars>>

NextExtract == ExtractOnce

SpecExtract == InitExtract /\ [][NextExtract]_vars

\* C9: from a text that is one named operation with a parameter list and a
\* nested selection, ExtractOperationsFromJS returns exactly one operation:
\* its kind is the keyword, its name the declared name, its variables the
\* declared name -> type pairs, and its fields contain the top-level field.
C9_OneOperationExtracted ==
  fnPc = "once" =>
    /\ Len(fnOut) = 1
    /\ fnOut[1].Type = fnIn.keyword
    /\ fnOut[1].Name = fnIn.name
    /\ fnOut[1].Variables = fnIn.variables
    /\ \E i \in 1..Len(fnOut[1].Fields) : fnOut[1].Fields[i] = fnIn.field

\* The text query Foo($id: ID!) { user(id: $id) { name } } was extracted:
\* one query Foo with id -> ID! and the field user.
C9_Witness ==
  /\ fnPc = "once"
  /\ fnIn.text = <<"q","u","e","r","y"," ","F","o","o","(","$","i","d",":"," ","I","D","!",")"," ","{"," ","u","s","e","r","(","i","d",":"," ","$","i","d",")"," ","{"," ","n","a","m","e"," ","}"," ","}">>
  /\ Len(fnOut) = 1
  /\ fnOut[1].Type = KwQuery
  /\ fnOut[1].Name = <<"F","o","o">>
  /\ fnOut[1].Variables = MapPut(EmptyMap, <<"i","d">>, <<"I","D","!">>)
  /\ fnOut[1].Fields[1] = <<"u","s","e","r">>

(***************************************************************************)
(* inferTypeStructure applied to decoded JSON values                       *)
(***************************************************************************)
MaxDepth == 2

Scalars ==
  { [t |-> "string", s |-> "1"],
    [t |-> "number", num |-> 2, den |-> 1],
    [t |-> "number", num |-> 3, den |-> 2],
    [t |-> "bool", b |-> TRUE],
    [t |-> "null"] }

\* The second element of a two-element array and the second member of a
\* two-member object.
Seconds == { [t |-> "string", s |-> "Ann"], [t |-> "null"] }

\* JSON values nested at most d deep: the scalars, the arrays of zero, one
\* and two elements, the objects of one and two members.
RECURSIVE JSONValues(_)
JSONValues(d) ==
  IF d = 0 THEN Scalars
  ELSE LET inner == JSONValues(d - 1)
       IN  Scalars
           \cup {[t |-> "array", a |-> <<>>]}
           \cup {[t |-> "array", a |-> <<v>>] : v \in inner}
           \cup {[t |-> "array", a |-> <<v, w>>] : v \in inner, w \in Seconds}
           \cup {[t |-> "object", o |-> [k \in {"user"} |-> v]] : v \in inner}
           \cup {[t |-> "object", o |-> [id |-> v, name |-> w]] :
                   v \in inner, w \in Seconds}

InitInfer ==
  /\ PipeIdle
  /\ fnPc = "input"
  /\ fnIn \in JSONValues(MaxDepth)
  /\ fnOut = <<>>

\* inferTypeStructure(value)
InferOnce ==
  /\ fnPc = "input"
  /\ fnOut' = inferTypeStructure(fnIn)
  /\ fnPc' = "once"
  /\ UNCHANGED <<fnIn, pipeVars>>

NextInfer == InferOnce

SpecInfer == InitInfer /\ [][NextInfer]_vars

StringNode == [type |-> "String"]

\* C10: inferTypeStructure gives every JSON value a node: an object an
\* Object node whose fields map each member name to the node of its value,
\* an array a List node of the node of its first element (of Unknown when
\* empty), a string String, a boolean Boolean, null Null; and the value
\* {"user": {"id": "1", "name": "Ann"}} the node
\* Object{user: Object{id: String, name: String}}.
C10_StructuralInference ==
  fnPc = "once" =>
    /\ fnIn.t = "object" =>
         /\ fnOut.type = "Object"
         /\ DOMAIN fnOut = {"type", "fields"}
         /\ DOMAIN fnOut.fields = DOMAIN fnIn.o
         /\ \A k \in DOMAIN fnIn.o :
              fnOut.fields[k] = inferTypeStructure(fnIn.o[k])
    /\ fnIn.t = "array" /\ fnIn.a # <<>> =>
         fnOut = [type |-> "List", of |-> inferTypeStructure(fnIn.a[1])]
    /\ fnIn.t = "array" /\ fnIn.a = <<>> =>
         fnOut = [type |-> "List", of |-> [type |-> "Unknown"]]
    /\ fnIn.t = "string" => fnOut = StringNode
    /\ fnIn.t = "bool" => fnOut = [type |-> "Boolean"]
    /\ fnIn.t = "null" => fnOut = [type |-> "Null"]
    /\ fnIn.t = "number" => fnOut \in {[type |-> "Int"], [type |-> "Float"]}
    /\ fnIn = ExampleResponse =>
         fnOut = [type   |-> "Object",
                  fields |-> [k \in {"user"} |->
                                [type   |-> "Object",
                                 fields |-> [id   |-> StringNode,
                                             name |-> StringNode]]]]

\* The node of {"user": {"id": "1", "name": "Ann"}} has been inferred.
C10_Witness ==
  /\ fnPc = "once"
  /\ fnIn = ExampleResponse
  /\ fnOut.type = "Object"
  /\ fnOut.fields["user"].fields["name"] = StringNode

(***************************************************************************)
(* Properties of the capture pipeline                                      *)
(***************************************************************************)
\* The capture list is final: main has received from capturesDone.
CapturesFinal == mainPc \in {"merge", "save", "done"}

RequestEvents == {i \in 1..Len(trace) : trace[i].kind = "request"}

\* Relevant by URL marker, content-type marker or body keyword.
Relevant(i) ==
  \/ URLHasMarker(trace[i].req.URL)
  \/ ContentTypeHasMarker(trace[i].req.ContentType)
  \/ ~trace[i].req.PostData.nil /\ trace[i].req.PostData.keyword

HasQuery(i) ==
  /\ ~trace[i].req.PostData.nil
  /\ trace[i].req.PostData.json
  /\ trace[i].req.PostData.query # <<>>

SameID(k, i) == trace[k].kind # "recvError" /\ trace[k].id = trace[i].id

\* The response event that matches request event i: the next event with
\* its identifier, if that is a response (there is at most one).
MatchingResponses(i) ==
  {j \in (i + 1)..Len(trace) :
     /\ trace[j].kind = "response"
     /\ SameID(j, i)
     /\ \A k \in (i + 1)..(j - 1) : ~SameID(k, i)}

\* The captures of the exchange begun by request event i, as positions in
\* the capture list: those stamped with the request or its response.
ExchangeCaptures(i) ==
  {c \in 1..Len(captures) :
     \/ captures[c].Timestamp = i
     \/ captures[c].Timestamp \in MatchingResponses(i)}

Absent(c) == captures[c].Response = NilValue

\* No response body was fetched for request event i.
NoBodyFetched(i) ==
  \A j \in MatchingResponses(i) : trace[j].fetch \in {"notFetched", "fetchError"}

\* The response of request event i arrived, its body was fetched and
\* decoded as JSON.
BodyDecoded(i) ==
  \E j \in MatchingResponses(i) : trace[j].fetch \in {"jsonNull", "jsonObject"}

C3_AsStated ==
  loopStart = "expiredWithAssets" =>
    /\ mainPc \notin {"download", "extract"}
    /\ processedURLs = {}
    /\ progress.JSFilesDownloaded = 0
    /\ progress.JSFilesProcessed = 0

\* The run was started with the deadline expired, a script URL waited in
\* jsURLs when the loop began, and the script has been downloaded and
\* processed.
C3_Processed ==
  /\ loopStart = "expiredWithAssets"
  /\ progress.JSFilesProcessed = 1
  /\ allOperations # <<>>

TriggerFired == ctxDone \/ sessionDone \/ jsURLsClosed

\* C4, as stated, in the part that is a property of single states: once
\* the timeout has elapsed, the session has ended or jsURLs is closed, and
\* until main has merged, deduplicated and exported, the run is not stuck:
\* main, the collector or the correlator can take a step.
C4_AsStated ==
  TriggerFired /\ ~saved.done => ENABLED (Main \/ Collector \/ Correlator)

\* A trigger has fired and main waits on capturesDone, while the
\* correlator is blocked sending to the full jsURLs, which only main
\* receives from.
C4_Stuck ==
  /\ TriggerFired
  /\ mainPc = "waitCaptures"
  /\ corrPc = "sendJS"
  /\ Len(jsURLs) = ChanCap
  /\ ~capturesDone

(***************************************************************************)
(* ExportToJSON (README.md)                                                *)
(***************************************************************************)
\* A string that has sub somewhere in it.
Contains(s, sub) == \E i \in 1..(Len(s) + 1) : HasPrefixAt(s, i, sub)

\* strings.HasSuffix(s, suffix)
HasSuffix(s, suffix) ==
  /\ Len(suffix) <= Len(s)
  /\ SubSeq(s, Len(s) - Len(suffix) + 1, Len(s)) = suffix

\* The orders in which a range over a map with these keys can go.
KeyOrders(keys) ==
  {o \in [1..Cardinality(keys) -> keys] : \A k \in keys : \E i \in DOMAIN o : o[i] = k}

\* "$" + name + ": " + typ for each name of order, ", " between them
RECURSIVE WriteSignatureVariables(_, _, _)
WriteSignatureVariables(variables, order, i) ==
  IF i > Len(order) THEN <<>>
  ELSE (IF i > 1 THEN <<",", " ">> ELSE <<>>)
       \o <<"$">> \o order[i] \o <<":", " ">> \o variables[order[i]]
       \o WriteSignatureVariables(variables, order, i + 1)

\* extractOperationSignature(op), the range over op.Variables going in
\* order
extractOperationSignature(op, order) ==
  op.Type
  \o (IF op.Name # <<>> THEN <<" ">> \o op.Name ELSE <<>>)
  \o (IF op.Variables # EmptyMap
      THEN <<"(">> \o WriteSignatureVariables(op.Variables, order, 1) \o <<")">>
      ELSE <<>>)

\* varTypes of ExportToJSON (lines 374-383)
VariableTypes(op) ==
  [name \in DOMAIN op.Variables |->
     [type     |-> op.Variables[name],
      required |-> HasSuffix(op.Variables[name], <<"!">>)]]

\* detailedOp of ExportToJSON: variableTypes only when there are variables
DetailedOperation(op, order) ==
  IF op.Variables # EmptyMap
  THEN [type |-> op.Type, name |-> op.Name, variables |-> op.Variables,
        fields |-> op.Fields,
        signature |-> extractOperationSignature(op, order),
        variableTypes |-> VariableTypes(op)]
  ELSE [type |-> op.Type, name |-> op.Name, variables |-> op.Variables,
        fields |-> op.Fields,
        signature |-> extractOperationSignature(op, order)]

\* The types map after the captures cs (lines 400-415): each member of a
\* response that is an object is described, later captures overwriting.
RECURSIVE InferredTypes(_, _)
InferredTypes(cs, types) ==
  IF cs = <<>> THEN types
  ELSE LET response == Head(cs).Response
           keys     == IF response.t = "object" THEN DOMAIN response.o ELSE {}
       IN  InferredTypes(Tail(cs),
             [k \in DOMAIN types \cup keys |->
                IF k \in keys THEN inferTypeStructure(response.o[k])
                ELSE types[k]])

\* ExportToJSON(operations, captures), the value that is marshalled (the
\* timestamp, time.Now(), left out); orders[i] is the order of the range
\* over the variables of operations[i].
ExportToJSON(operations, cs, orders) ==
  LET detailedOps == [i \in 1..Len(operations) |->
                        DetailedOperation(operations[i], orders[i])]
      summary == [totalOperations |-> Len(operations),
                  queries       |-> countOperationType(operations, KwQuery),
                  mutations     |-> countOperationType(operations, KwMutation),
                  subscriptions |->
                    countOperationType(operations, KwSubscription)]
      types == InferredTypes(cs, EmptyMap)
  IN  IF types # EmptyMap
      THEN [operations |-> detailedOps, summary |-> summary,
            inferredTypes |-> types]
      ELSE [operations |-> detailedOps, summary |-> summary]

(***************************************************************************)
(* ExportToJSON applied to operation lists and capture lists               *)
(***************************************************************************)
Variables2(n1, t1, n2, t2) == MapPut(MapPut(EmptyMap, n1, t1), n2, t2)

ExportOperation(type, name, variables) ==
  [Type |-> type, Name |-> name, Variables |-> variables,
   Fields |-> <<<<"a">>>>, Raw |-> <<>>]

\* Operations whose variable types end with "!" and do not, hold a "!"
\* inside only, are the placeholder, and are empty.
ExportPool ==
  { ExportOperation(KwQuery, <<"Q">>, MapPut(EmptyMap, <<"i","d">>, <<"I","D","!">>)),
    ExportOperation(KwQuery, <<"P">>, MapPut(EmptyMap, <<"i","d">>, <<"I","D">>)),
    ExportOperation(KwMutation, <<"M">>,
                    Variables2(<<"n">>, <<"[","I","n","t","!","]">>, <<"m">>, <<"[","I","n","t","!","]","!">>)),
    ExportOperation(KwQuery, <<>>,
                    Variables2(<<"a">>, AnyType, <<"e">>, <<>>)),
    ExportOperation(KwSubscription, <<"S">>, EmptyMap) }

ExportCaptures ==
  { <<>>,
    << [NoCapture EXCEPT !.Query = QueryA] >>,
    << [NoCapture EXCEPT !.Query = QueryA],
       [NoCapture EXCEPT !.Query = QueryA, !.Response = ExampleResponse] >> }

InitExport ==
  /\ PipeIdle
  /\ fnPc = "input"
  /\ \E operations \in ListsOf(ExportPool, MaxOperations),
        cs \in ExportCaptures :
       fnIn = [operations |-> operations, captures |-> cs]
  /\ fnOut = <<>>

\* ExportToJSON(unique, captures)
ExportOnce ==
  /\ fnPc = "input"
  /\ \E orders \in [1..Len(fnIn.operations) ->
                     UNION {KeyOrders(DOMAIN op.Variables) : op \in ExportPool}] :
       /\ \A i \in 1..Len(fnIn.operations) :
            orders[i] \in KeyOrders(DOMAIN fnIn.operations[i].Variables)
       /\ fnOut' = ExportToJSON(fnIn.operations, fnIn.captures, orders)
  /\ fnPc' = "once"
  /\ UNCHANGED <<fnIn, pipeVars>>

NextExport == ExportOnce

SpecExport == InitExport /\ [][NextExport]_vars

\* C11: in the JSON export every variable of every operation is marked
\* required exactly when its type string ends with "!", and the type is
\* given as it is.
C11_RequiredIffBang ==
  fnPc = "once" =>
    \A i \in 1..Len(fnIn.operations) :
      LET vs == fnIn.operations[i].Variables
      IN  \A name \in DOMAIN vs :
            /\ fnOut.operations[i].variableTypes[name].type = vs[name]
            /\ fnOut.operations[i].variableTypes[name].required
                 = (vs[name] # <<>> /\ vs[name][Len(vs[name])] = "!")

\* An export with id: ID! marked required and id: ID marked optional.
C11_Witness ==
  /\ fnPc = "once"
  /\ Len(fnIn.operations) = 2
  /\ fnIn.operations[1].Variables = MapPut(EmptyMap, <<"i","d">>, <<"I","D","!">>)
  /\ fnIn.operations[2].Variables = MapPut(EmptyMap, <<"i","d">>, <<"I","D">>)
  /\ fnOut.operations[1].variableTypes[<<"i","d">>].required
  /\ ~fnOut.operations[2].variableTypes[<<"i","d">>].required

(***************************************************************************)
(* Further properties of the capture pipeline                              *)
(***************************************************************************)
Formatters == {OutputFiles[i] : i \in 1..Len(OutputFiles)}

\* C12, as stated: when a formatter fails to write its output, each of the
\* other formatters is still run.
C12_AsStated ==
  saved.done /\ saved.failed \in Formatters => saved.ran = Formatters

\* The schema-definition text could not be written, and neither the JSON
\* formatter nor the detailed log was run.
C12_Aborted ==
  /\ saved.done
  /\ saved.failed = "graphql"
  /\ saved.ran = {"graphql"}
  /\ saved.files = {}

MalformedEvents ==
  {k \in 1..Len(trace) :
     trace[k].kind = "recvError" /\ trace[k].cause = "malformed"}

\* C13, as stated: an event that cannot be decoded never stops the
\* correlator: it goes on receiving and its output channels stay open.
C13_AsStated ==
  MalformedEvents # {} =>
    /\ corrPc \notin {"closeJS", "done"}
    /\ ~gqlCapturesClosed
    /\ ~jsURLsClosed

\* The first event of the run could not be decoded; the correlator has
\* returned and both of its channels are closed.
C13_Stopped ==
  /\ MalformedEvents = {1}
  /\ corrPc = "done"
  /\ gqlCapturesClosed
  /\ jsURLsClosed

LogEntries(url, step) ==
  {k \in 1..Len(assetLog) : assetLog[k].url = url /\ assetLog[k].step = step}

\* The response events that report url.
ReportsOf(url) ==
  {k \in 1..Len(trace) : trace[k].kind = "response" /\ trace[k].URL = url}

\* C14: for every asset URL main starts at most one download and
\* processes the asset at most once.
C14_AtMostOnce ==
  \A url \in {ScriptA, ScriptB} :
    /\ Cardinality(LogEntries(url, "download")) <= 1
    /\ Cardinality(LogEntries(url, "processed")) <= 1

\* Two response events reported the same script; its one download failed,
\* and the second report was received and skipped.
C14_Witness ==
  /\ Cardinality(ReportsOf(ScriptA)) = 2
  /\ assetLog = << [url |-> ScriptA, step |-> "download"],
                   [url |-> ScriptA, step |-> "skipped"] >>
  /\ progress.JSFilesDownloaded = 0
  /\ mainPc = "loop"

\* C15: whenever main reads the captures list (to merge, to export), the
\* correlator has closed gqlCaptures, the channel is drained, the collector
\* has closed capturesDone and can append nothing more.
C15_ReadAfterCompletion ==
  mainPc \in {"merge", "save"} \/ saved.done =>
    /\ gqlCapturesClosed
    /\ gqlCaptures = <<>>
    /\ capturesDone
    /\ ~ENABLED Collector

\* The session ended, the collector gathered two captures and signalled,
\* and main is about to merge them.
C15_Witness ==
  /\ mainPc = "merge"
  /\ sessionDone /\ ~ctxDone
  /\ Len(captures) = 2
  /\ capturesDone

\* The script URLs the correlator has sent on jsURLs, in the order sent: the
\* script responses of the trace, but for one whose send is still blocked.
IsScriptResponse(e) == e.kind = "response" /\ HasSuffixJS(e.URL)

ScriptResponses == SelectSeq(trace, IsScriptResponse)

SentURLs ==
  IF corrPc = "sendJS"
  THEN SubSeq(ScriptResponses, 1, Len(ScriptResponses) - 1)
  ELSE ScriptResponses

\* The script URLs main has received from jsURLs, in the order received.
IsReceipt(e) == e.step \in {"skipped", "download"}

ReceivedURLs == SelectSeq(assetLog, IsReceipt)

\* The captures the correlator has sent on gqlCaptures, counted by its own
\* counter, which it raises just before each send.
SentCaptures ==
  progress.NetworkCaptures
    - (IF corrPc \in {"sendRequestCapture", "sendResponseCapture"}
       THEN 1 ELSE 0)

DeliveredCaptures == captures \o gqlCaptures

IsRequestOf(e, id) == e.kind = "request" /\ e.id = id

IsResponseOf(e, id) == e.kind = "response" /\ e.id = id

InFlight(id) ==
  \E i \in 1..Len(trace) :
    /\ IsRequestOf(trace[i], id)
    /\ \A k \in (i + 1)..Len(trace) : ~IsResponseOf(trace[k], id)

\* The correlator is in the middle of handling the response event that is
\* last in the trace (blocked in one of the two sends of that case).
HandlingResponse == corrPc \in {"sendJS", "sendResponseCapture"}

\* C17: whenever the correlator is between events, the pending table holds
\* exactly the identifiers in flight, so an entry is there only if its
\* request was observed and no response referencing it has been processed
\* since, whether or not that response led to a capture; while a response is
\* being handled this holds of every other identifier.
C17_PendingTable ==
  \A id \in RequestIDs :
    \/ HandlingResponse /\ trace[Len(trace)].id = id
    \/ id \in DOMAIN requests <=> InFlight(id)

\* A relevant request was stored, its response was processed without a
\* capture (the body could not be fetched), and the entry is gone.
C17_Witness ==
  /\ Len(trace) = 2
  /\ IsRequestOf(trace[1], 1) /\ isGraphQLRequest(trace[1].req)
  /\ IsResponseOf(trace[2], 1) /\ trace[2].fetch = "fetchError"
  /\ corrPc = "select"
  /\ 1 \notin DOMAIN requests

\* The response of request event i arrived and its body could not be
\* fetched, was empty, or was not valid JSON.
BodyUnusable(i) ==
  \E j \in MatchingResponses(i) :
    trace[j].fetch \in {"fetchError", "empty", "notJSON"}

\* C18: for a relevant request whose response body cannot be fetched, is
\* empty or is not valid JSON, the final capture list holds no capture made
\* at response time, and the capture made at request time, if the request
\* had a query, is there once and as it was made.
C18_RequestCaptureStands ==
  CapturesFinal =>
    \A i \in RequestEvents :
      Relevant(i) /\ BodyUnusable(i) =>
        /\ \A c \in 1..Len(captures) :
             captures[c].Timestamp \notin MatchingResponses(i)
        /\ HasQuery(i) =>
             /\ Cardinality(ExchangeCaptures(i)) = 1
             /\ \A c \in ExchangeCaptures(i) :
                  captures[c] = RequestCapture(trace[i].req, i)

\* The run is over; a relevant request with a query was answered with an
\* empty body, and its request-time capture is the whole list.
C18_Witness ==
  /\ mainPc = "done"
  /\ Len(trace) >= 2
  /\ trace[1].kind = "request" /\ Relevant(1) /\ HasQuery(1)
  /\ MatchingResponses(1) = {2} /\ trace[2].fetch = "empty"
  /\ captures = << RequestCapture(trace[1].req, 1) >>

(***************************************************************************)
(* ParseGraphQLOperation on operations with nested selections              *)
(***************************************************************************)
\* A field of a selection: its name, whether it has an argument list, and
\* the fields of its own selection block (none for a scalar field).
Field(name, args, kids) == [name |-> name, args |-> args, kids |-> kids]

UpToTwo(first, second) ==
  {<<x>> : x \in first} \cup {<<x, y>> : x \in first, y \in second}

LeafFields == {Field(<<n>>, a, <<>>) : n \in {"c", "d"}, a \in BOOLEAN}

InnerFields ==
  LeafFields
    \cup {Field(<<"b">>, a, k) : a \in BOOLEAN,
                                 k \in UpToTwo(LeafFields, LeafFields)}

OuterFields ==
  {Field(<<"a">>, a, k) :
     a \in BOOLEAN, k \in {<<>>} \cup UpToTwo(InnerFields, LeafFields)}

Selections ==
  {<<t>> : t \in OuterFields}
    \cup {<<t, Field(<<"e">>, FALSE, <<>>)>> : t \in OuterFields}

ArgumentList == <<"(", "x", ":", " ", "1", ")">>

\* The text of a selection: fields separated by one space, a block in
\* braces after the field that has one.
RECURSIVE RenderSelection(_)
RenderSelection(fields) ==
  IF fields = <<>> THEN <<>>
  ELSE LET f == Head(fields)
       IN  f.name
             \o (IF f.args THEN ArgumentList ELSE <<>>)
             \o (IF f.kids = <<>> THEN <<>>
                 ELSE <<" ", "{", " ">> \o RenderSelection(f.kids)
                        \o <<" ", "}">>)
             \o (IF Tail(fields) = <<>> THEN <<>>
                 ELSE <<" ">> \o RenderSelection(Tail(fields)))

RenderOperation(fields) ==
  <<"q","u","e","r","y"," ","Q"," ","{"," ">>
    \o RenderSelection(fields) \o <<" ", "}">>

TopLevelNames(fields) == [i \in 1..Len(fields) |-> fields[i].name]

InitFields ==
  /\ PipeIdle
  /\ fnPc = "input"
  /\ fnIn \in Selections
  /\ fnOut = <<>>

\* ParseGraphQLOperation(operation)
ParseOnce ==
  /\ fnPc = "input"
  /\ fnOut' = ParseGraphQLOperation(RenderOperation(fnIn))
  /\ fnPc' = "once"
  /\ UNCHANGED <<fnIn, pipeVars>>

NextFields == ParseOnce

SpecFields == InitFields /\ [][NextFields]_vars

\* C19 as stated: the fields of a parsed operation are the top-level field
\* names of its body, in order; a name that occurs only in a nested block or
\* in an argument list is not among them.
C19_AsStated ==
  fnPc = "once" =>
    /\ ~fnOut.err
    /\ fnOut.op.Fields = TopLevelNames(fnIn)

\* query Q { a { b { c } d } e } was parsed, and d, which occurs only in the
\* block of a, is among the fields.
C19_NestedRecorded ==
  /\ fnPc = "once"
  /\ fnIn = << Field(<<"a">>, FALSE,
                     << Field(<<"b">>, FALSE, <<Field(<<"c">>, FALSE, <<>>)>>),
                        Field(<<"d">>, FALSE, <<>>) >>),
               Field(<<"e">>, FALSE, <<>>) >>
  /\ ~fnOut.err
  /\ fnOut.op.Fields = << <<"a">>, <<"d">>, <<"e">> >>

(***************************************************************************)
(* The merge of captures into the operations (main, lines 865-880)         *)
(***************************************************************************)
MaxCaptures == 2

ShorthandQuery == <<"{", " ", "a", " ", "}">>

StringValue(text) == [t |-> "string", s |-> text]

CaptureVariables ==
  {EmptyMap,
   MapPut(EmptyMap, <<"i","d">>, StringValue("1")),
   MapPut(MapPut(EmptyMap, <<"i","d">>, StringValue("1")),
          <<"n">>, StringValue("2"))}

CapturePool ==
  {[Query |-> q, Variables |-> v, Response |-> r, Timestamp |-> 1,
    URL |-> GraphQLURL] :
     q \in {<<>>, ShorthandQuery, QueryA, QueryB},
     v \in CaptureVariables,
     r \in {NilValue}}

CaptureLists ==
  UNION {[1..n -> CapturePool] : n \in 1..MaxCaptures}

InitMerge ==
  /\ PipeIdle
  /\ fnPc = "input"
  /\ fnIn \in CaptureLists
  /\ fnOut = <<>>

\* for _, capture := range captures { ... }
MergeOnce ==
  /\ fnPc = "input"
  /\ fnOut' = MergeCaptures(fnIn)
  /\ fnPc' = "once"
  /\ UNCHANGED <<fnIn, pipeVars>>

NextMerge == MergeOnce

SpecMerge == InitMerge /\ [][NextMerge]_vars

\* The captures whose query text parses, in order, and what each parses to.
Parses(capture) ==
  capture.Query # <<>> /\ ~ParseGraphQLOperation(capture.Query).err

Parsed == SelectSeq(fnIn, Parses)

Declared(i) == ParseGraphQLOperation(Parsed[i].Query).op.Variables

\* C20: the merge gives one operation for each capture whose query parses,
\* in order; its variables differ from the declared ones only if the capture
\* has variables and the text declares none, and then they are the capture's
\* variable names, each typed "Any"; an operation that declares a variable
\* keeps exactly its declared variables and types.
C20_BackfillOnlyUndeclared ==
  fnPc = "once" =>
    /\ Len(fnOut) = Len(Parsed)
    /\ \A i \in 1..Len(Parsed) :
         /\ fnOut[i].Variables # Declared(i) =>
              Parsed[i].Variables # EmptyMap /\ Declared(i) = EmptyMap
         /\ Parsed[i].Variables # EmptyMap /\ Declared(i) = EmptyMap =>
              /\ DOMAIN fnOut[i].Variables = DOMAIN Parsed[i].Variables
              /\ \A k \in DOMAIN fnOut[i].Variables :
                   fnOut[i].Variables[k] = AnyType
         /\ Declared(i) # EmptyMap => fnOut[i].Variables = Declared(i)
         /\ [fnOut[i] EXCEPT !.Variables = Declared(i)]
              = ParseGraphQLOperation(Parsed[i].Query).op

\* Two captures with variables were merged: the text of the first declares
\* none and gets id and n typed "Any"; the text of the second declares
\* $id: ID! and keeps it.
C20_Witness ==
  /\ fnPc = "once"
  /\ Len(fnIn) = 2 /\ Len(fnOut) = 2
  /\ fnIn[1].Query = QueryB /\ fnIn[2].Query = QueryA
  /\ DOMAIN fnIn[1].Variables = {<<"i","d">>, <<"n">>}
  /\ DOMAIN fnIn[2].Variables = {<<"i","d">>, <<"n">>}
  /\ fnOut[1].Variables =
       MapPut(MapPut(EmptyMap, <<"i","d">>, AnyType), <<"n">>, AnyType)
  /\ fnOut[2].Variables = MapPut(EmptyMap, <<"i","d">>, <<"I","D","!">>)

\* C21: no capture in the capture list or on its way there has an empty
\* query, and a relevant request whose body does not decode as JSON with a
\* non-empty query member has no capture in the final list, whatever its
\* response.
C21_OnlyWithQuery ==
  /\ \A c \in 1..Len(captures) : captures[c].Query # <<>>
  /\ \A c \in 1..Len(gqlCaptures) : gqlCaptures[c].Query # <<>>
  /\ CapturesFinal =>
       \A i \in RequestEvents :
         Relevant(i) /\ ~HasQuery(i) => ExchangeCaptures(i) = {}

\* The run is over; a relevant request with a JSON body without a query
\* member was answered with a JSON object, and the list is empty.
C21_Witness ==
  /\ mainPc = "done"
  /\ Len(trace) >= 2
  /\ trace[1].kind = "request" /\ Relevant(1)
  /\ trace[1].req.PostData = BodyJSONWithoutQuery
  /\ MatchingResponses(1) = {2} /\ trace[2].fetch = "jsonObject"
  /\ captures = <<>>

\* The captures emitted so far, in the order emitted: those collected, those
\* in the channel, and the one the correlator is sending at response time.
EmittedCaptures ==
  DeliveredCaptures
    \o (IF corrPc = "sendResponseCapture" THEN <<corrCapture>> ELSE <<>>)

C23_CounterOrder ==
  /\ progress.JSFilesProcessed <= progress.JSFilesDownloaded
  /\ progress.JSFilesDownloaded <= progress.JSFilesFound

\* Two scripts were discovered; the first is downloaded and main is about to
\* extract from it, so nothing is processed yet.
C23_Witness ==
  /\ progress.JSFilesFound = 2
  /\ progress.JSFilesDownloaded = 1
  /\ progress.JSFilesProcessed = 0
  /\ mainPc = "extract"

\* C24: the network-captures counter is never below the length of the
\* captures list, and equals it once the collector has closed capturesDone.
C24_CounterCoversList ==
  /\ Len(captures) <= progress.NetworkCaptures
  /\ capturesDone => progress.NetworkCaptures = Len(captures)

\* The collector has signalled completion with two captures in the list and
\* the counter at two, while main is still in its loop.
C24_Witness ==
  /\ capturesDone
  /\ Len(captures) = 2
  /\ progress.NetworkCaptures = 2
  /\ mainPc = "loop"

\* The operations extracted from the scripts main processed, and the
\* operations the merge made of the captures.
StaticOperations ==
  UNION {{ScriptOperations(assetLog[n].url)[m] :
            m \in 1..Len(ScriptOperations(assetLog[n].url))} :
           n \in {l \in 1..Len(assetLog) : assetLog[l].step = "processed"}}

DerivedFrom(cs) ==
  UNION {{CaptureOperations(captures[c])[m] :
            m \in 1..Len(CaptureOperations(captures[c]))} : c \in cs}

\* The saved operations that have the identity key of an operation in ops.
RetainedFor(ops) ==
  {k \in 1..Len(saved.operations) :
     \E o \in ops :
       createOperationKey(saved.operations[k]) = createOperationKey(o)}

\* The exchange begun by request event i gave a capture without its
\* response and a capture with it.
BothCaptures(i) ==
  \E c, d \in ExchangeCaptures(i) : Absent(c) /\ ~Absent(d)

\* C25: in the operations saveOperations writes, an exchange with both a
\* response-less and a response-carrying capture has at most one operation,
\* and an operation that is a duplicate of a statically extracted one and of
\* a capture-derived one is the statically extracted one.
C25_StaticRetained ==
  saved.done /\ saved.failed # "mkdir" =>
    /\ \A i \in RequestEvents :
         BothCaptures(i) =>
           Cardinality(RetainedFor(DerivedFrom(ExchangeCaptures(i)))) <= 1
    /\ \A k \in RetainedFor(StaticOperations) \cap
                RetainedFor(DerivedFrom(1..Len(captures))) :
         saved.operations[k] \in StaticOperations

\* Script A, which carries QueryA laid out over three lines, was processed
\* and a request with QueryA was captured: the one operation saved has the
\* script's text.
C25_Witness ==
  /\ saved.done /\ saved.failed = "none"
  /\ Len(captures) = 1 /\ captures[1].Query = QueryA
  /\ StaticOperations # {}
  /\ Len(saved.operations) = 1
  /\ saved.operations[1].Raw = ScriptAQuery
  /\ saved.operations[1].Raw # CaptureOperations(captures[1])[1].Raw

\* An exchange gave both captures and one operation was saved for it.
C25_BothCapturesSaved ==
  /\ saved.done /\ saved.failed = "none"
  /\ \E i \in RequestEvents :
       /\ BothCaptures(i)
       /\ Cardinality(RetainedFor(DerivedFrom(ExchangeCaptures(i)))) = 1
  /\ Len(allOperations) = 2

\* The operations of a list, as a set.
OperationsOf(L) == {L[i] : i \in 1..Len(L)}

\* Duplicates as the specification has them: both have raw text and it
\* normalizes to the same text, or both have none and the tuples agree.
StatedDuplicates(a, b) ==
  \/ /\ a.Raw # <<>> /\ b.Raw # <<>>
     /\ normalizeGraphQL(a.Raw) = normalizeGraphQL(b.Raw)
  \/ /\ a.Raw = <<>> /\ b.Raw = <<>>
     /\ ComponentTuple(a) = ComponentTuple(b)

\* The normalized text of a is not empty and is the text the components of
\* b are written to, b's normalized text being empty.
TextOfComponents(na, nb, b) ==
  na # <<>> /\ nb = <<>> /\ na = ComponentKey(b)

\* Duplicates as createOperationKey has them, on the normalized texts na
\* of a and nb of b.
SameIdentity(a, b, na, nb) ==
  \/ na # <<>> /\ na = nb
  \/ na = <<>> /\ nb = <<>> /\ ComponentTuple(a) = ComponentTuple(b)
  \/ TextOfComponents(na, nb, b)
  \/ TextOfComponents(nb, na, a)

KeyDuplicates(a, b) ==
  SameIdentity(a, b, normalizeGraphQL(a.Raw), normalizeGraphQL(b.Raw))

=============================================================================
